---- MODULE Spec2Model ----
(***************************************************************************)
(* State-machine model of the asynchronous task/result pipeline of the     *)
(* email categorization service (ai/app/queue_manager.py, class            *)
(* RabbitMQManager) and of the endpoint that reads it (ai/app/main.py).    *)
(*                                                                         *)
(* Two threads share one RabbitMQManager: the foreground context (the      *)
(* event loop that serves the HTTP endpoints, one call at a time) and the  *)
(* daemon worker thread started by start_worker.  The worker is modelled   *)
(* statement by statement, because the foreground can run between any two  *)
(* of its statements.  The broker is the environment: it holds the durable *)
(* queues, it can become unreachable, and it redelivers unacknowledged     *)
(* messages when the connection closes.                                    *)
(***************************************************************************)
EXTENDS Integers, Sequences, FiniteSets, TLC

(***************************************************************************)
(* Bounds of the model.                                                    *)
(***************************************************************************)
MaxMsgs == 2          \* messages ever published to the work queue
MaxDrops == 1         \* times the broker connection is lost
MaxTime == 3          \* ticks of the clock
MaxQueue == 2         \* messages held by the result queue
MaxLookups == 2       \* lookups counted by cache_hits and cache_misses
MaxCats == 3          \* rows of table "categories"
MaxLimit == 2         \* limit passed to find_similar_categories
MaxLen == 2           \* characters of a text passed to generate_embedding
MaxReqs == 3          \* categorization requests
result_cache_ttl == 2 \* settings.result_cache_ttl, in ticks
PrefetchCount == 2    \* settings.worker_prefetch_count, scaled down

VARIABLES
    task_results,        \* self.task_results: task_id -> TaskResult
    is_running,          \* self.is_running
    processor_callback,  \* self.processor_callback is set
    conn,                \* self.connection / self.channel: "none", "open", "closed"
    broker_up,           \* environment: the broker is reachable
    work_queue,          \* broker: ready messages of queue "email_processing"
    unacked,             \* broker: delivered, not yet acked or nacked (delivery order)
    next_id,             \* source of fresh uuid4 task ids / message ids
    w_pc,                \* worker thread: statement it is about to execute
    w_msg,               \* worker thread: the message of the running _process_message
    w_result,            \* worker thread: local "result" of _process_message
    fg_pc,               \* foreground: statement it is about to execute
    fg_task,             \* foreground: local task_id of queue_task
    completed_tasks,     \* foreground: local list of clear_completed_tasks
    task_result,         \* foreground: local task_result of main.get_task_status
    drops,               \* number of connection losses so far
    delivered,           \* history: ids of messages handed to _process_message
    handled,             \* history: ids whose _process_message has ended
    escaped,             \* history: ids whose _process_message ended by an exception
    proc_ok,             \* history: ids for which the processor returned a result
    sent,                \* history: id -> acknowledgements sent for it
    result_cache,        \* self._result_cache: key -> result
    result_cache_expiry, \* self._result_cache_expiry: key -> expiry time
    result_queue,        \* broker: messages of queue "category_results"
    cache_hits,          \* self.cache_hits
    cache_misses,        \* self.cache_misses
    clock,               \* time.time(), in ticks
    scan_key,            \* foreground: parameter key of get_cached_result
    scan_now,            \* foreground: local now of get_cached_result
    scan_requeued,       \* history: the running lookup has nacked a message
    calls,               \* history: a cache_result and the lookups that followed it
    written,             \* history: key -> time of its last successful cache_result
    emb_cache,           \* EmbeddingCache._cache: entries in insertion order
    emb_op,              \* history: the last call of EmbeddingCache
    svc_cache,           \* service.embedding_cache: cache_key -> embedding
    svc_op,              \* history: the last call of generate_embedding
    categories,          \* rows of table "categories", in the order of get_categories
    vs_op,               \* history: the last call of find_similar_categories
    db_ok,               \* environment: the database session can run a statement
    pg_op,               \* history: the last call that took the pgvector path
    thr_op,              \* the call of ThreadUtils.is_thread_continuation
    canonical_categories, \* EmailCategorizationService.canonical_categories
    canonical_embeddings, \* categorization_service.canonical_embeddings
    admin_embeddings,    \* canonical_embeddings of the instance an admin call made
    can_op,              \* history: the last call of generate_category_name
    eng_pc,              \* context -> statement of the request it is serving
    eng_loc,             \* context -> locals of the request it is serving
    eng_out,             \* history: context -> outcome of its last request
    reqs,                \* number of categorization requests so far
    fp_op                \* the two emails whose content hash is computed

jobVars == <<task_results, is_running, processor_callback, conn, broker_up,
             work_queue, unacked, next_id, w_pc, w_msg, w_result, fg_pc,
             fg_task, completed_tasks, task_result, drops, delivered, handled,
             escaped, proc_ok, sent>>

cacheVars == <<result_cache, result_cache_expiry, result_queue, cache_hits,
               cache_misses, clock, scan_key, scan_now, scan_requeued, calls,
               written>>

embVars == <<emb_cache, emb_op>>

svcVars == <<svc_cache, svc_op>>

vsVars == <<categories, vs_op>>

pgVars == <<db_ok, pg_op>>

canVars == <<canonical_categories, canonical_embeddings, admin_embeddings,
             can_op>>

catVars == <<eng_pc, eng_loc, eng_out, reqs, fp_op>>

\* the categorization engine and what it uses
engVars == <<pgVars, thr_op, canVars, catVars>>

\* the components beside the queue manager
libVars == <<embVars, svcVars, vsVars, engVars>>

vars == <<jobVars, cacheVars, libVars>>

(***************************************************************************)
(* TaskStatus, TaskResult                                                  *)
(***************************************************************************)
QUEUED == "queued"
PROCESSING == "processing"
COMPLETED == "completed"
FAILED == "failed"
TaskStatus == {QUEUED, PROCESSING, COMPLETED, FAILED}

None == "None"

\* TaskResult(task_id, status): result, error and completed_at default to None
TaskResult(status) ==
    [status |-> status, result |-> None, error |-> None, completed_at |-> FALSE]

\* the value standing for Python's None where a TaskResult is expected
NoTask == [status |-> None, result |-> None, error |-> None, completed_at |-> FALSE]

MsgIds == 1..MaxMsgs
NoMsg == [id |-> 0, kind |-> "none"]

\* bodies a consumer of "email_processing" can receive: the JSON object that
\* queue_task publishes, a body json.loads rejects, a JSON object without
\* the keys task_id and data
ForeignKinds == {"garbage", "nokeys"}

\* main.get_task_status is not running
NoLookup == [id |-> 0, task |-> NoTask, http |-> 0]

\* no call of the component has been made
NoEmbOp == [op |-> None, key |-> None, val |-> None, removed |-> None]

NoSvcOp == [text |-> <<>>, ret |-> <<>>, invoked |-> FALSE]

NoVsOp == [query |-> <<>>, threshold |-> 0, limit |-> 0, result |-> <<>>]

NoPgOp == [query |-> <<>>, threshold |-> 0, limit |-> 0, result |-> <<>>,
           native |-> None, raised |-> None]

NoThrOp == [current |-> <<>>, thread |-> <<>>, called |-> TRUE, result |-> FALSE]

\* no content hash is being computed
NoFpOp == [called |-> TRUE]

\* CANONICAL_CATEGORIES, service.py lines 24-36, scaled down: the labels in
\* the order of the dict, each with its keywords; "account" is a keyword of
\* two labels and "general" has none
CANONICAL_CATEGORIES ==
    <<[label |-> "work", keywords |-> {"meeting"}],
      [label |-> "finance", keywords |-> {"invoice", "bill", "account"}],
      [label |-> "tech", keywords |-> {"laptop", "account"}],
      [label |-> "general", keywords |-> {}]>>

\* _precompute_canonical_embeddings, lines 55-61: one embedding per label of
\* the table, in the order of the table; the embedding of a label is
\* LabelEmbedding of it
precompute_canonical_embeddings(table) ==
    [i \in 1..Len(table) |-> table[i].label]

\* the two contexts that run the engine: the endpoints and the worker thread
Ctx == {"fg", "worker"}

NoText == [word |-> None, emb |-> <<>>]

NoCanOp == [text |-> NoText, name |-> None]

NoRequest == [kind |-> None, text |-> NoText, previous_category |-> None,
              subject |-> <<>>, thread_subject |-> <<>>]

\* the locals of a request and what it has done so far
NoLoc == [request |-> NoRequest, category |-> 0, similarity |-> 0,
          name |-> None, existing |-> 0, inner |-> FALSE,
          matcher_calls |-> 0, created |-> <<>>, counted |-> <<>>,
          path |-> <<>>, db_error |-> FALSE, assigned |-> None,
          confidence |-> 0, is_new |-> FALSE, raised |-> FALSE,
          done |-> FALSE]

\* no request in progress, no response yet
Idle == [done |-> FALSE]

\* the state after construction, but for the arguments of the pure functions
Start ==
    /\ task_results = <<>>
    /\ is_running = FALSE
    /\ processor_callback = FALSE
    /\ conn = "none"
    /\ broker_up = TRUE
    /\ work_queue = <<>>
    /\ unacked = <<>>
    /\ next_id = 1
    /\ w_pc = "dead"
    /\ w_msg = NoMsg
    /\ w_result = None
    /\ fg_pc = "idle"
    /\ fg_task = 0
    /\ completed_tasks = {}
    /\ task_result = NoLookup
    /\ drops = 0
    /\ delivered = {}
    /\ handled = {}
    /\ escaped = {}
    /\ proc_ok = {}
    /\ sent = [i \in MsgIds |-> {}]
    /\ result_cache = <<>>
    /\ result_cache_expiry = <<>>
    /\ result_queue = <<>>
    /\ cache_hits = 0
    /\ cache_misses = 0
    /\ clock = 0
    /\ scan_key = None
    /\ scan_now = 0
    /\ scan_requeued = FALSE
    /\ calls = <<>>
    /\ written = <<>>
    /\ emb_cache = <<>>
    /\ emb_op = NoEmbOp
    /\ svc_cache = <<>>
    /\ svc_op = NoSvcOp
    /\ categories = <<>>
    /\ vs_op = NoVsOp
    /\ db_ok = TRUE
    /\ pg_op = NoPgOp
    /\ canonical_categories = CANONICAL_CATEGORIES
    /\ canonical_embeddings = precompute_canonical_embeddings(CANONICAL_CATEGORIES)
    /\ admin_embeddings = <<>>
    /\ can_op = NoCanOp
    /\ eng_pc = [c \in Ctx |-> "idle"]
    /\ eng_loc = [c \in Ctx |-> Idle]
    /\ eng_out = [c \in Ctx |-> Idle]
    /\ reqs = 0

Init == Start /\ thr_op = NoThrOp /\ fp_op = NoFpOp

(***************************************************************************)
(* Helpers                                                                 *)
(***************************************************************************)
\* task_id in self.task_results
InTable(id) == id \in DOMAIN task_results

\* self.task_results[id].<field> = value, the object being in the table
SetField(id, field, value) ==
    [task_results EXCEPT ![id] = [@ EXCEPT ![field] = value]]

\* del self.task_results[id] for every id of ids
Without(ids) == [i \in (DOMAIN task_results) \ ids |-> task_results[i]]

\* a connect that never succeeds
connect_fails(c) == c

\* self.connect(): a new connection and channel when the broker is reachable,
\* otherwise the error is logged and connection and channel stay as they were
connect(c) == IF broker_up THEN "open" ELSE c

\* if not self.channel: self.connect()
EnsureChannel == IF conn = "none" THEN connect(conn) ELSE conn

\* the message without its broker bookkeeping
RemoveMsg(q, m) == SelectSeq(q, LAMBDA x : x # m)

historyVars == <<delivered, handled, escaped, proc_ok, sent>>
workerVars == <<w_pc, w_msg, w_result>>
fgVars == <<fg_pc, fg_task, completed_tasks, task_result>>
brokerVars == <<work_queue, unacked, broker_up, drops>>

FgIdle == fg_pc = "idle"

(***************************************************************************)
(* Foreground operations                                                   *)
(***************************************************************************)
\* set_processor
SetProcessor ==
    /\ FgIdle
    /\ ~processor_callback
    /\ processor_callback' = TRUE
    /\ UNCHANGED <<task_results, is_running, conn, next_id, workerVars, fgVars,
                   brokerVars, historyVars>>
    /\ UNCHANGED <<cacheVars, libVars>>

\* start_worker: nothing happens while the worker thread is alive
StartWorker ==
    /\ FgIdle
    /\ w_pc = "dead"
    /\ is_running' = TRUE
    /\ w_pc' = "L148"
    /\ UNCHANGED <<task_results, processor_callback, conn, next_id, w_msg,
                   w_result, fgVars, brokerVars, historyVars>>
    /\ UNCHANGED <<cacheVars, libVars>>

\* stop_worker: clears the flag; join(timeout=5) returns whether or not the
\* thread has ended
StopWorker ==
    /\ FgIdle
    /\ is_running
    /\ is_running' = FALSE
    /\ UNCHANGED <<task_results, processor_callback, conn, next_id, workerVars,
                   fgVars, brokerVars, historyVars>>
    /\ UNCHANGED <<cacheVars, libVars>>

\* payloads of queue_task: a JSON-serializable dict, and a dict holding a
\* datetime (what StandaloneEmailRequest.dict() returns)
TaskData == {"json", "dt"}

\* queue_task, lines 84-104: the id is generated and the message published.
\* An exception of json.dumps or of the publish is logged and re-raised;
\* nothing is stored.
QueueTaskPublish(task_data) ==
    /\ FgIdle
    /\ next_id <= MaxMsgs
    /\ conn' = EnsureChannel
    /\ IF task_data = "json" /\ conn' = "open"
         THEN /\ work_queue' = Append(work_queue, [id |-> next_id, kind |-> "task"])
              /\ next_id' = next_id + 1
              /\ fg_pc' = "L107"
              /\ fg_task' = next_id
         ELSE UNCHANGED <<work_queue, next_id, fg_pc, fg_task>>
    /\ UNCHANGED <<task_results, is_running, processor_callback, workerVars,
                   completed_tasks, task_result, unacked, broker_up, drops,
                   historyVars>>
    /\ UNCHANGED <<cacheVars, libVars>>

\* queue_task, lines 107-113: the queued record is stored after the publish,
\* and the id returned
QueueTaskStore ==
    /\ fg_pc = "L107"
    /\ task_results' = (fg_task :> TaskResult(QUEUED)) @@ task_results
    /\ fg_pc' = "idle"
    /\ fg_task' = 0
    /\ UNCHANGED <<is_running, processor_callback, conn, next_id, workerVars,
                   completed_tasks, task_result, brokerVars, historyVars>>
    /\ UNCHANGED <<cacheVars, libVars>>

\* a lookup that answers an unknown id with a default record
get_task_status_default(id) ==
    IF InTable(id) THEN task_results[id] ELSE TaskResult(QUEUED)

\* RabbitMQManager.get_task_status: self.task_results.get(task_id)
get_task_status(id) == IF InTable(id) THEN task_results[id] ELSE NoTask

\* main.get_task_status, lines 235-238: the manager is asked; 404 when it
\* returned nothing.  The probed ids include 0, an id no queue_task returned.
GetTaskStatus(id) ==
    /\ FgIdle
    /\ task_result' = [id |-> id, task |-> get_task_status(id),
                       http |-> IF get_task_status(id) = NoTask THEN 404 ELSE 200]
    /\ fg_pc' = "L240"
    /\ UNCHANGED <<task_results, is_running, processor_callback, conn, next_id,
                   workerVars, fg_task, completed_tasks, brokerVars, historyVars>>
    /\ UNCHANGED <<cacheVars, libVars>>

\* main.get_task_status, lines 238-247: the response (or the 404) is sent
GetTaskStatusRespond ==
    /\ fg_pc = "L240"
    /\ task_result' = NoLookup
    /\ fg_pc' = "idle"
    /\ UNCHANGED <<task_results, is_running, processor_callback, conn, next_id,
                   workerVars, fg_task, completed_tasks, brokerVars, historyVars>>
    /\ UNCHANGED <<cacheVars, libVars>>

\* a list of jobs that takes every job of the table, whatever its status
AllJobs == DOMAIN task_results

\* clear_completed_tasks, lines 238-241: the list of terminal jobs
TerminalJobs ==
    {id \in DOMAIN task_results : task_results[id].status \in {COMPLETED, FAILED}}

ClearCollect ==
    /\ FgIdle
    /\ completed_tasks' = TerminalJobs
    /\ fg_pc' = "L243"
    /\ UNCHANGED <<task_results, is_running, processor_callback, conn, next_id,
                   workerVars, fg_task, task_result, brokerVars, historyVars>>
    /\ UNCHANGED <<cacheVars, libVars>>

\* clear_completed_tasks, lines 243-246: the listed jobs are deleted
ClearDelete ==
    /\ fg_pc = "L243"
    /\ task_results' = Without(completed_tasks)
    /\ completed_tasks' = {}
    /\ fg_pc' = "idle"
    /\ UNCHANGED <<is_running, processor_callback, conn, next_id, workerVars,
                   fg_task, task_result, brokerVars, historyVars>>
    /\ UNCHANGED <<cacheVars, libVars>>

(***************************************************************************)
(* Environment: the broker                                                 *)
(***************************************************************************)
\* another producer publishes to the durable queue "email_processing"
ForeignPublish(kind) ==
    /\ broker_up
    /\ next_id <= MaxMsgs
    /\ work_queue' = Append(work_queue, [id |-> next_id, kind |-> kind])
    /\ next_id' = next_id + 1
    /\ UNCHANGED <<task_results, is_running, processor_callback, conn, workerVars,
                   fgVars, unacked, broker_up, drops, historyVars>>
    /\ UNCHANGED <<cacheVars, libVars>>

\* The broker becomes unreachable: an open connection is closed, the messages
\* it had delivered without receiving an ack or nack go back to the head of
\* the queue, and a worker blocked in start_consuming gets the error
\* (lines 163-167).
BrokerFails ==
    /\ broker_up
    /\ broker_up' = FALSE
    /\ conn' = IF conn = "open" THEN "closed" ELSE conn
    /\ work_queue' = unacked \o work_queue
    /\ unacked' = <<>>
    /\ w_pc' = IF w_pc = "L163" THEN "L148" ELSE w_pc
    /\ UNCHANGED <<task_results, is_running, processor_callback, next_id, w_msg,
                   w_result, fgVars, historyVars>>
    /\ UNCHANGED <<cacheVars, libVars>>

\* the connection losses of the worker's runs are counted
BrokerDown ==
    /\ drops < MaxDrops
    /\ drops' = drops + 1
    /\ BrokerFails

BrokerUp ==
    /\ ~broker_up
    /\ broker_up' = TRUE
    /\ UNCHANGED <<task_results, is_running, processor_callback, conn, next_id,
                   workerVars, fgVars, work_queue, unacked, drops, historyVars>>
    /\ UNCHANGED <<cacheVars, libVars>>

(***************************************************************************)
(* The worker thread: _worker_loop and _process_message                    *)
(***************************************************************************)
\* _worker_loop, lines 148-160: leave when is_running is false; (re)connect
\* when there is no open connection, sleeping and retrying when that fails;
\* then register the consumer and block in start_consuming (line 163)
WorkerLoop ==
    /\ w_pc = "L148"
    /\ IF ~is_running
         THEN /\ w_pc' = "dead"
              /\ UNCHANGED conn
         ELSE /\ conn' = IF conn = "open" THEN conn ELSE connect(conn)
              /\ w_pc' = IF conn' = "open" THEN "L163" ELSE "L148"
    /\ UNCHANGED <<task_results, is_running, processor_callback, next_id, w_msg,
                   w_result, fgVars, brokerVars, historyVars>>
    /\ UNCHANGED <<cacheVars, libVars>>

\* start_consuming hands the next ready message to _process_message; the
\* broker sends at most prefetch_count unacknowledged messages (line 156)
Deliver ==
    /\ w_pc = "L163"
    /\ conn = "open"
    /\ work_queue # <<>>
    /\ Len(unacked) < PrefetchCount
    /\ w_msg' = Head(work_queue)
    /\ work_queue' = Tail(work_queue)
    /\ unacked' = Append(unacked, Head(work_queue))
    /\ delivered' = delivered \cup {Head(work_queue).id}
    /\ w_pc' = "L172"
    /\ UNCHANGED <<task_results, is_running, processor_callback, conn, next_id,
                   w_result, fgVars, broker_up, drops, handled, escaped, proc_ok,
                   sent>>
    /\ UNCHANGED <<cacheVars, libVars>>

\* _process_message returns to start_consuming
Return ==
    /\ w_pc' = "L163"
    /\ w_msg' = NoMsg
    /\ w_result' = None
    /\ handled' = handled \cup {w_msg.id}
    /\ UNCHANGED escaped

\* an exception leaves _process_message: it passes through start_consuming to
\* the handler of _worker_loop (lines 165-167), which logs, sleeps and loops
Escape ==
    /\ w_pc' = "L148"
    /\ w_msg' = NoMsg
    /\ w_result' = None
    /\ handled' = handled \cup {w_msg.id}
    /\ escaped' = escaped \cup {w_msg.id}

\* a statement of the try block goes to pcTo, or to the except clause
Goto(pcTo) ==
    /\ w_pc' = pcTo
    /\ UNCHANGED <<w_msg, w_result, handled, escaped>>

\* self.task_results[task_id].<field> = value at pcFrom.  The lookup raises
\* KeyError when the job was deleted since the membership test: inside the
\* try block that leads to the except clause, inside the except clause it
\* leaves _process_message.
SetJobField(pcFrom, pcTo, field, value, inTry) ==
    /\ w_pc = pcFrom
    /\ IF InTable(w_msg.id)
         THEN /\ task_results' = SetField(w_msg.id, field, value)
              /\ Goto(pcTo)
         ELSE /\ UNCHANGED task_results
              /\ IF inTry THEN Goto("L204") ELSE Escape
    /\ UNCHANGED <<is_running, processor_callback, conn, next_id, fgVars,
                   brokerVars, delivered, proc_ok, sent>>
    /\ UNCHANGED <<cacheVars, libVars>>

\* lines 172-174: json.loads(body.decode()), message["task_id"], message["data"]
Parse ==
    /\ w_pc = "L172"
    /\ Goto(IF w_msg.kind = "task" THEN "L179" ELSE "L204")
    /\ UNCHANGED <<task_results, is_running, processor_callback, conn, next_id,
                   fgVars, brokerVars, delivered, proc_ok, sent>>
    /\ UNCHANGED <<cacheVars, libVars>>

\* line 179: if task_id in self.task_results
CheckProcessing ==
    /\ w_pc = "L179"
    /\ Goto(IF InTable(w_msg.id) THEN "L180" ELSE "L183")
    /\ UNCHANGED <<task_results, is_running, processor_callback, conn, next_id,
                   fgVars, brokerVars, delivered, proc_ok, sent>>
    /\ UNCHANGED <<cacheVars, libVars>>

\* line 180
SetProcessing == SetJobField("L180", "L183", "status", PROCESSING, TRUE)

\* lines 183-184: the processor callback returns a result
ProcessorReturns ==
    /\ w_pc = "L183"
    /\ processor_callback
    /\ w_pc' = "L187"
    /\ w_result' = "result"
    /\ proc_ok' = proc_ok \cup {w_msg.id}
    /\ UNCHANGED <<task_results, is_running, processor_callback, conn, next_id,
                   w_msg, fgVars, brokerVars, delivered, handled, escaped, sent>>
    /\ UNCHANGED <<cacheVars, libVars>>

\* lines 183-184, 193-195: the processor callback raises, or none is set
ProcessorRaises ==
    /\ w_pc = "L183"
    /\ Goto("L204")
    /\ proc_ok' = proc_ok \ {w_msg.id}
    /\ UNCHANGED <<task_results, is_running, processor_callback, conn, next_id,
                   fgVars, brokerVars, delivered, sent>>
    /\ UNCHANGED <<cacheVars, libVars>>

\* line 187: if task_id in self.task_results
CheckCompleted ==
    /\ w_pc = "L187"
    /\ Goto(IF InTable(w_msg.id) THEN "L188" ELSE "L198")
    /\ UNCHANGED <<task_results, is_running, processor_callback, conn, next_id,
                   fgVars, brokerVars, delivered, proc_ok, sent>>
    /\ UNCHANGED <<cacheVars, libVars>>

\* lines 188-190
SetCompleted == SetJobField("L188", "L189", "status", COMPLETED, TRUE)

SetResult == SetJobField("L189", "L190", "result", w_result, TRUE)

SetCompletedAt == SetJobField("L190", "L198", "completed_at", TRUE, TRUE)

\* line 198: ch.basic_ack, which raises on a closed channel
Ack ==
    /\ w_pc = "L198"
    /\ IF conn = "open"
         THEN /\ unacked' = RemoveMsg(unacked, w_msg)
              /\ sent' = [sent EXCEPT ![w_msg.id] = @ \cup {"ack"}]
              /\ Return
         ELSE /\ Goto("L204")
              /\ UNCHANGED <<unacked, sent>>
    /\ UNCHANGED <<task_results, is_running, processor_callback, conn, next_id,
                   fgVars, work_queue, broker_up, drops, delivered, proc_ok>>
    /\ UNCHANGED <<cacheVars, libVars>>

\* line 204: task_id = json.loads(body.decode()).get("task_id"), which raises
\* again for a body that json.loads rejects
ExceptParse ==
    /\ w_pc = "L204"
    /\ IF w_msg.kind = "garbage" THEN Escape ELSE Goto("L205")
    /\ UNCHANGED <<task_results, is_running, processor_callback, conn, next_id,
                   fgVars, brokerVars, delivered, proc_ok, sent>>
    /\ UNCHANGED <<cacheVars, libVars>>

\* line 205: if task_id and task_id in self.task_results
CheckFailed ==
    /\ w_pc = "L205"
    /\ Goto(IF w_msg.kind = "task" /\ InTable(w_msg.id) THEN "L206" ELSE "L211")
    /\ UNCHANGED <<task_results, is_running, processor_callback, conn, next_id,
                   fgVars, brokerVars, delivered, proc_ok, sent>>
    /\ UNCHANGED <<cacheVars, libVars>>

\* lines 206-208
SetFailed == SetJobField("L206", "L207", "status", FAILED, FALSE)

SetError == SetJobField("L207", "L208", "error", "error", FALSE)

SetFailedAt == SetJobField("L208", "L211", "completed_at", TRUE, FALSE)

\* line 211: ch.basic_nack(requeue=False): the broker drops the message
Nack ==
    /\ w_pc = "L211"
    /\ IF conn = "open"
         THEN /\ unacked' = RemoveMsg(unacked, w_msg)
              /\ sent' = [sent EXCEPT ![w_msg.id] = @ \cup {"nack"}]
              /\ Return
         ELSE /\ Escape
              /\ UNCHANGED <<unacked, sent>>
    /\ UNCHANGED <<task_results, is_running, processor_callback, conn, next_id,
                   fgVars, work_queue, broker_up, drops, delivered, proc_ok>>
    /\ UNCHANGED <<cacheVars, libVars>>

Next ==
    \/ SetProcessor
    \/ StartWorker
    \/ StopWorker
    \/ \E task_data \in TaskData : QueueTaskPublish(task_data)
    \/ QueueTaskStore
    \/ \E id \in 0..MaxMsgs : GetTaskStatus(id)
    \/ GetTaskStatusRespond
    \/ ClearCollect
    \/ ClearDelete
    \/ \E kind \in ForeignKinds : ForeignPublish(kind)
    \/ BrokerDown
    \/ BrokerUp
    \/ WorkerLoop
    \/ Deliver
    \/ Parse
    \/ CheckProcessing
    \/ SetProcessing
    \/ ProcessorReturns
    \/ ProcessorRaises
    \/ CheckCompleted
    \/ SetCompleted
    \/ SetResult
    \/ SetCompletedAt
    \/ Ack
    \/ ExceptParse
    \/ CheckFailed
    \/ SetFailed
    \/ SetError
    \/ SetFailedAt
    \/ Nack

Spec == Init /\ [][Next]_vars

\* a statement of the worker thread
WorkerStep ==
    \/ WorkerLoop
    \/ Deliver
    \/ Parse
    \/ CheckProcessing
    \/ SetProcessing
    \/ ProcessorReturns
    \/ ProcessorRaises
    \/ CheckCompleted
    \/ SetCompleted
    \/ SetResult
    \/ SetCompletedAt
    \/ Ack
    \/ ExceptParse
    \/ CheckFailed
    \/ SetFailed
    \/ SetError
    \/ SetFailedAt
    \/ Nack

\* the worker thread and what drives its loop: the flag, the callback, the
\* connection, the broker, and the messages with and without a record in the
\* job table (clear_completed_tasks and the status lookups are steps of Next)
LiveNext ==
    \/ SetProcessor
    \/ StartWorker
    \/ StopWorker
    \/ \E task_data \in TaskData : QueueTaskPublish(task_data)
    \/ QueueTaskStore
    \/ \E kind \in ForeignKinds : ForeignPublish(kind)
    \/ BrokerDown
    \/ BrokerUp
    \/ WorkerStep

\* the worker thread is scheduled: while it has a statement to execute, it
\* eventually executes one (time.sleep returns, the callback returns)
LiveSpec == Init /\ [][LiveNext]_vars /\ WF_vars(WorkerStep)

(***************************************************************************)
(* The result cache: cache_result, get_cached_result, cleanup_result_cache  *)
(***************************************************************************)
Keys == {"k1", "k2"}

\* results a caller can pass: a non-empty JSON object, the empty dict, and a
\* dict holding a datetime (what CategorizationResponse.dict() returns)
Results == {"r1", "empty", "dt"}

\* the calls of cache_result: one key is written with each kind of result,
\* the other key with a non-empty object
Writes == {<<"k1", "r1">>, <<"k2", "r1">>, <<"k2", "empty">>, <<"k2", "dt">>}

\* json.dumps(message): TypeError for a value that is not JSON serializable
JsonSerializable(r) == r # "dt"

json_dumps(r) ==
    CASE r = "r1" -> "{\"category\": 1}"
      [] r = "empty" -> "{}"

json_loads(b) ==
    CASE b = "{\"category\": 1}" -> "r1"
      [] b = "{}" -> "empty"

\* truth value of a dict: the empty dict is false
Truthy(r) == r \notin {None, "empty"}

\* d[k] = v
Put(d, k, v) == (k :> v) @@ d

\* del d[k] for every k of ks
Drop(d, ks) == [k \in (DOMAIN d) \ ks |-> d[k]]

\* the record of a finished call: what was passed or returned, and for a
\* cache_result the time and the counters it ended with
Call(op, key, val) ==
    [op |-> op, key |-> key, val |-> val,
     t |-> IF op = "cache_result" THEN clock ELSE 0,
     hits |-> IF op = "cache_result" THEN cache_hits ELSE 0,
     misses |-> IF op = "cache_result" THEN cache_misses ELSE 0]

\* calls ends with the last finished call.  It holds a cache_result and the
\* lookups of its key that followed it (at most two) as long as no other
\* call came between them.
Follow(c) ==
    IF /\ calls # <<>>
       /\ calls[1].op = "cache_result"
       /\ Len(calls) < 3
       /\ c.op = "get_cached_result"
       /\ c.key = calls[1].key
      THEN Append(calls, c)
      ELSE <<c>>

jobOnly == <<task_results, is_running, processor_callback, work_queue, unacked,
             next_id, workerVars, fg_task, completed_tasks, task_result, drops,
             historyVars>>

\* the write times w of the keys of which the queue q or the in-memory tier
\* c still holds an entry: a key without an entry is as if never written
Remembered(w, q, c) ==
    [k \in {j \in DOMAIN w : j \in DOMAIN c \/ \E i \in DOMAIN q : q[i].key = j}
        |-> w[k]]

\* cache_result writing the in-memory tier whether or not the publish succeeded
cache_result_memory_always(key, result) ==
    /\ conn' = EnsureChannel
    /\ result_queue' =
           IF JsonSerializable(result) /\ conn' = "open"
             THEN Append(result_queue,
                         [key |-> key, result |-> json_dumps(result),
                          expires |-> clock + result_cache_ttl])
             ELSE result_queue
    /\ result_cache' = Put(result_cache, key, result)
    /\ result_cache_expiry' =
           Put(result_cache_expiry, key, clock + result_cache_ttl)

\* cache_result: publish to the result queue with the queue's message TTL,
\* then write the in-memory tier; any exception of the try block (the body
\* is not serializable, there is no channel, the channel is closed) is logged
cache_result(key, result) ==
    /\ conn' = EnsureChannel
    /\ IF JsonSerializable(result) /\ conn' = "open"
         THEN /\ result_queue' = Append(result_queue,
                     [key |-> key, result |-> json_dumps(result),
                      expires |-> clock + result_cache_ttl])
              /\ result_cache' = Put(result_cache, key, result)
              /\ result_cache_expiry' =
                     Put(result_cache_expiry, key, clock + result_cache_ttl)
         ELSE UNCHANGED <<result_queue, result_cache, result_cache_expiry>>

CacheResult(key, result) ==
    /\ FgIdle
    /\ Len(result_queue) < MaxQueue
    /\ cache_result(key, result)
    /\ calls' = <<Call("cache_result", key, result)>>
    /\ written' = IF result_queue' # result_queue
                     THEN Put(written, key, clock)
                     ELSE written
    /\ UNCHANGED <<cache_hits, cache_misses, clock, scan_key, scan_now, scan_requeued,
                   fg_pc, broker_up>>
    /\ UNCHANGED <<jobOnly, libVars>>

\* key in self._result_cache and self._result_cache_expiry.get(key, 0) > now
MemoryHit(key, now) ==
    /\ key \in DOMAIN result_cache
    /\ (IF key \in DOMAIN result_cache_expiry THEN result_cache_expiry[key] ELSE 0) > now

\* get_cached_result, lines 276-284: the in-memory tier answers when it holds
\* the key unexpired; otherwise the channel is opened if there is none, and
\* the scan of the result queue begins.  Without an open channel the
\* exception handler counts a miss.
GetCachedResult(key) ==
    /\ FgIdle
    /\ cache_hits + cache_misses < MaxLookups
    /\ IF MemoryHit(key, clock)
         THEN /\ cache_hits' = cache_hits + 1
              /\ calls' = Follow(Call("get_cached_result", key, result_cache[key]))
              /\ UNCHANGED <<conn, cache_misses, fg_pc, scan_key, scan_now>>
         ELSE /\ conn' = EnsureChannel
              /\ IF conn' = "open"
                   THEN /\ fg_pc' = "L285"
                        /\ scan_key' = key
                        /\ scan_now' = clock
                        /\ UNCHANGED <<cache_hits, cache_misses, calls>>
                   ELSE /\ cache_misses' = cache_misses + 1
                        /\ calls' = Follow(Call("get_cached_result", key, None))
                        /\ UNCHANGED <<cache_hits, fg_pc, scan_key, scan_now>>
    /\ UNCHANGED <<result_cache, result_cache_expiry, result_queue, clock,
                   scan_requeued, written, broker_up>>
    /\ UNCHANGED <<jobOnly, libVars>>

\* a nack that does not requeue: the broker drops the message
RequeueDropped(q) == Tail(q)

\* basic_nack(requeue=True): the broker puts the message back where it was
Requeue(q) == q

\* basic_ack: the broker removes the message
Acked(q) == Tail(q)

\* get_cached_result returns val
ReturnLookup(val, hits, misses) ==
    /\ cache_hits' = hits
    /\ cache_misses' = misses
    /\ calls' = Follow(Call("get_cached_result", scan_key, val))
    /\ fg_pc' = "idle"
    /\ scan_key' = None
    /\ scan_now' = 0
    /\ scan_requeued' = FALSE

\* get_cached_result, lines 285-309: one basic_get and one pass of the loop.
\* A matching message is promoted with the expiry now + ttl, acked and
\* counted as a hit, and the loop is left; then "if found" returns it, and
\* otherwise a miss is counted and None returned.  Any other message is
\* nacked with requeue and the next basic_get follows.  An empty queue ends
\* the loop; a closed channel raises into the handler, which counts a miss.
ScanStep ==
    /\ fg_pc = "L285"
    /\ IF conn # "open"
         THEN /\ ReturnLookup(None, cache_hits, cache_misses + 1)
              /\ UNCHANGED <<result_cache, result_cache_expiry, result_queue>>
         ELSE IF result_queue = <<>>
         THEN /\ ReturnLookup(None, cache_hits, cache_misses + 1)
              /\ UNCHANGED <<result_cache, result_cache_expiry, result_queue>>
         ELSE IF Head(result_queue).key = scan_key
         THEN LET found == json_loads(Head(result_queue).result)
              IN  /\ result_cache' = Put(result_cache, scan_key, found)
                  /\ result_cache_expiry' =
                         Put(result_cache_expiry, scan_key, scan_now + result_cache_ttl)
                  /\ result_queue' = Acked(result_queue)
                  /\ IF Truthy(found)
                       THEN ReturnLookup(found, cache_hits + 1, cache_misses)
                       ELSE ReturnLookup(None, cache_hits + 1, cache_misses + 1)
         ELSE /\ result_queue' = Requeue(result_queue)
              /\ scan_requeued' = TRUE
              /\ UNCHANGED <<result_cache, result_cache_expiry, cache_hits,
                             cache_misses, calls, fg_pc, scan_key, scan_now>>
    /\ written' = Remembered(written, result_queue', result_cache')
    /\ UNCHANGED <<conn, clock, broker_up>>
    /\ UNCHANGED <<jobOnly, libVars>>

\* cleanup_result_cache: the entries whose expiry lies before now are deleted
CleanupResultCache ==
    /\ FgIdle
    /\ LET expired_keys == {k \in DOMAIN result_cache_expiry :
                               result_cache_expiry[k] < clock}
       IN  /\ expired_keys # {}
           /\ result_cache' = Drop(result_cache, expired_keys)
           /\ result_cache_expiry' = Drop(result_cache_expiry, expired_keys)
    /\ calls' = Follow(Call("cleanup_result_cache", None, None))
    /\ written' = Remembered(written, result_queue, result_cache')
    /\ UNCHANGED <<result_queue, cache_hits, cache_misses, clock, scan_key,
                   scan_now, scan_requeued, fg_pc, conn, broker_up>>
    /\ UNCHANGED <<jobOnly, libVars>>

\* Time passes; the broker drops the messages of the result queue that are
\* older than x-message-ttl.
Tick ==
    /\ clock < MaxTime
    /\ clock' = clock + 1
    /\ result_queue' = SelectSeq(result_queue, LAMBDA m : m.expires > clock + 1)
    /\ written' = Remembered(written, result_queue', result_cache)
    /\ UNCHANGED <<result_cache, result_cache_expiry, cache_hits, cache_misses,
                   scan_key, scan_now, scan_requeued, calls, fg_pc, conn, broker_up>>
    /\ UNCHANGED <<jobOnly, libVars>>

\* The process is restarted: a new RabbitMQManager (lines 36-54) replaces the
\* old one and its threads, and the caches of the process are empty; the
\* durable queues keep their messages, the messages the old connection had
\* not acknowledged become ready again, and the database keeps its rows.
Restart ==
    /\ task_results' = <<>>
    /\ is_running' = FALSE
    /\ processor_callback' = FALSE
    /\ conn' = "none"
    /\ work_queue' = unacked \o work_queue
    /\ unacked' = <<>>
    /\ w_pc' = "dead"
    /\ w_msg' = NoMsg
    /\ w_result' = None
    /\ fg_pc' = "idle"
    /\ fg_task' = 0
    /\ completed_tasks' = {}
    /\ task_result' = NoLookup
    /\ result_cache' = <<>>
    /\ result_cache_expiry' = <<>>
    /\ cache_hits' = 0
    /\ cache_misses' = 0
    /\ scan_key' = None
    /\ scan_now' = 0
    /\ scan_requeued' = FALSE
    /\ calls' = <<>>
    /\ written' = Remembered(written, result_queue, <<>>)
    /\ emb_cache' = <<>>
    /\ emb_op' = NoEmbOp
    /\ svc_cache' = <<>>
    /\ svc_op' = NoSvcOp
    /\ vs_op' = NoVsOp
    /\ pg_op' = NoPgOp
    /\ UNCHANGED <<broker_up, next_id, drops, historyVars, result_queue, clock,
                   categories, db_ok, thr_op, canVars, catVars>>

\* the broker becomes unreachable while the result cache is in use
Outage == BrokerFails /\ UNCHANGED drops

CacheNext ==
    \/ \E w \in Writes : CacheResult(w[1], w[2])
    \/ \E key \in Keys : GetCachedResult(key)
    \/ ScanStep
    \/ CleanupResultCache
    \/ Tick
    \/ Restart
    \/ Outage
    \/ BrokerUp

CacheSpec == Init /\ [][CacheNext]_vars

(***************************************************************************)
(* EmbeddingCache (ai/app/cache.py).  Every operation runs inside          *)
(* "with self._lock", so an operation is one step.  The dict is a sequence  *)
(* of entries in insertion order, which is the order min() scans.          *)
(***************************************************************************)
max_size == 2   \* EmbeddingCache.max_size (settings.cache_size, scaled down)
ttl == 2        \* EmbeddingCache.ttl (settings.embedding_cache_ttl), in ticks

EmbKeys == {"e1", "e2", "e3"}
Embeddings == {"v1", "v2"}

\* key in self._cache
Has(c, key) == \E i \in 1..Len(c) : c[i].key = key

\* the entry self._cache[key]
Entry(c, key) == c[CHOOSE i \in 1..Len(c) : c[i].key = key]

\* del self._cache[key]
Del(c, key) == SelectSeq(c, LAMBDA e : e.key # key)

\* min(self._cache.keys(), key=lambda k: self._cache[k][1]): the first key,
\* in insertion order, among those with the smallest timestamp
oldest_key(c) ==
    c[CHOOSE i \in 1..Len(c) :
         /\ \A j \in 1..Len(c) : c[j].timestamp >= c[i].timestamp
         /\ \A j \in 1..(i - 1) : c[j].timestamp > c[i].timestamp].key

\* self._cache[key] = (embedding, now): a key the dict holds keeps its place
Store(c, key, embedding, now) ==
    LET e == [key |-> key, embedding |-> embedding, timestamp |-> now]
    IN  IF Has(c, key)
          THEN [i \in 1..Len(c) |-> IF c[i].key = key THEN e ELSE c[i]]
          ELSE Append(c, e)

\* an eviction test that lets the dict grow past max_size
FullLate(c) == Len(c) > max_size

\* line 31: len(self._cache) >= self.max_size
Full(c) == Len(c) >= max_size

\* a freshness test that still serves an entry whose age is ttl
FreshInclusive(timestamp, now) == now - timestamp <= ttl

\* line 21: time.time() - timestamp < self.ttl
Fresh(timestamp, now) == now - timestamp < ttl

\* EmbeddingCache.set
EmbSet(key, embedding) ==
    LET evict == Full(emb_cache)
        kept == IF evict THEN Del(emb_cache, oldest_key(emb_cache)) ELSE emb_cache
    IN  /\ emb_cache' = Store(kept, key, embedding, clock)
        /\ emb_op' = [op |-> "set", key |-> key, val |-> embedding,
                      removed |-> IF evict THEN oldest_key(emb_cache) ELSE None]
        /\ UNCHANGED <<jobVars, cacheVars, svcVars, vsVars, engVars>>

\* EmbeddingCache.get
EmbGet(key) ==
    /\ IF Has(emb_cache, key)
         THEN IF Fresh(Entry(emb_cache, key).timestamp, clock)
                THEN /\ emb_op' = [op |-> "get", key |-> key,
                                   val |-> Entry(emb_cache, key).embedding,
                                   removed |-> None]
                     /\ UNCHANGED emb_cache
                ELSE /\ emb_cache' = Del(emb_cache, key)
                     /\ emb_op' = [op |-> "get", key |-> key, val |-> None,
                                   removed |-> key]
         ELSE /\ emb_op' = [op |-> "get", key |-> key, val |-> None,
                            removed |-> None]
              /\ UNCHANGED emb_cache
    /\ UNCHANGED <<jobVars, cacheVars, svcVars, vsVars, engVars>>

\* EmbeddingCache.clear
EmbClear ==
    /\ emb_cache' = <<>>
    /\ emb_op' = [op |-> "clear", key |-> None, val |-> None, removed |-> None]
    /\ UNCHANGED <<jobVars, cacheVars, svcVars, vsVars, engVars>>

EmbNext ==
    \/ \E key \in EmbKeys, embedding \in Embeddings : EmbSet(key, embedding)
    \/ \E key \in EmbKeys : EmbGet(key)
    \/ EmbClear
    \/ Tick

EmbSpec == Init /\ [][EmbNext]_vars

(***************************************************************************)
(* EmailCategorizationService.generate_embedding (ai/app/service.py) and   *)
(* the TTLCache it consults, service.embedding_cache                       *)
(***************************************************************************)
embedding_dim == 2  \* self.embedding_dim, the model's dimension, scaled down
maxsize == 1        \* TTLCache(maxsize=settings.cache_size), scaled down

Chars == {" ", "a", "b"}

\* the strings of at most MaxLen characters
Texts == UNION {[1..n -> Chars] : n \in 0..MaxLen}

RECURSIVE lstrip(_)
lstrip(text) ==
    IF text # <<>> /\ Head(text) = " " THEN lstrip(Tail(text)) ELSE text

RECURSIVE rstrip(_)
rstrip(text) ==
    IF text # <<>> /\ text[Len(text)] = " "
      THEN rstrip(SubSeq(text, 1, Len(text) - 1))
      ELSE text

\* str.strip()
strip(text) == rstrip(lstrip(text))

\* hash(): equal strings have equal hashes, and different strings can have
\* equal hashes; here all strings of one length collide
hash(text) == Len(text)

\* line 106: cache_key = f"emb_{hash(text.strip())}"
cache_key(text) == <<"emb_", hash(strip(text))>>

\* self.model.encode(text, convert_to_tensor=False).tolist(): a vector of
\* embedding_dim numbers that depends on the text
encode(text) ==
    [i \in 1..embedding_dim |->
        IF i = 1 THEN Len(text)
                 ELSE Cardinality({j \in 1..Len(text) : text[j] = "a"})]

\* [0.0] * self.embedding_dim
ZeroVector == [i \in 1..embedding_dim |-> 0]

\* a test for the empty string only
BlankNoStrip(text) == text = <<>>

\* line 102: not text or not text.strip()
Blank(text) == text = <<>> \/ strip(text) = <<>>

\* embedding_cache[cache_key] = embedding_list: a full cache drops an entry
\* to make room for a new key
CachePut(cache, key, value) ==
    IF key \in DOMAIN cache \/ Cardinality(DOMAIN cache) < maxsize
      THEN Put(cache, key, value)
      ELSE Put(Drop(cache, {CHOOSE k \in DOMAIN cache : TRUE}), key, value)

\* generate_embedding(text); fails: the model invocation (or the store that
\* follows it inside the try block) raises
GenerateEmbedding(text, fails) ==
    /\ IF Blank(text)
         THEN /\ svc_op' = [text |-> text, ret |-> ZeroVector, invoked |-> FALSE]
              /\ UNCHANGED svc_cache
         ELSE IF cache_key(text) \in DOMAIN svc_cache
         THEN /\ svc_op' = [text |-> text, ret |-> svc_cache[cache_key(text)],
                            invoked |-> FALSE]
              /\ UNCHANGED svc_cache
         ELSE IF fails
         THEN /\ svc_op' = [text |-> text, ret |-> ZeroVector, invoked |-> TRUE]
              /\ UNCHANGED svc_cache
         ELSE /\ svc_op' = [text |-> text, ret |-> encode(text), invoked |-> TRUE]
              /\ svc_cache' = CachePut(svc_cache, cache_key(text), encode(text))
    /\ UNCHANGED <<jobVars, cacheVars, embVars, vsVars, engVars>>

\* the entries of the TTLCache expire, or main.clear_embedding_cache clears it
SvcExpire ==
    /\ svc_cache # <<>>
    /\ svc_cache' = <<>>
    /\ UNCHANGED <<svc_op, jobVars, cacheVars, embVars, vsVars, engVars>>

SvcNext ==
    \/ \E text \in Texts, fails \in BOOLEAN : GenerateEmbedding(text, fails)
    \/ SvcExpire

SvcSpec == Init /\ [][SvcNext]_vars

(***************************************************************************)
(* VectorStore.find_similar_categories, in-memory path                     *)
(* (ai/app/vector_store.py).  Scores and thresholds are in hundredths.     *)
(***************************************************************************)
category_match_threshold == 70  \* settings.category_match_threshold = 0.7

\* Category.embedding_vector of a row: no embedding, an embedding of another
\* dimension, embeddings of the query's dimension
CatEmbeddings == {<<>>, <<1>>, <<1, 0>>, <<1, 1>>}

\* query embeddings: vectors of the model's dimension (the zero vector is
\* what generate_embedding returns on failure), and a vector of dimension 1
Queries == {<<1, 0>>, <<0, 0>>, <<1>>}

\* thresholds a caller passes: 0, a false value in "threshold or ...", and
\* one that lies between the similarities of the vectors above
Thresholds == {0, 71}

RECURSIVE Dot(_, _)
Dot(u, v) == IF u = <<>> THEN 0 ELSE Head(u) * Head(v) + Dot(Tail(u), Tail(v))

\* floor of the square root
ISqrt(n) == CHOOSE r \in 0..n : r * r <= n /\ (r + 1) * (r + 1) > n

\* the dot product of the normalized vectors, 0 when one of them is the
\* zero vector
Cosine(u, v) ==
    IF Dot(u, u) = 0 \/ Dot(v, v) = 0
      THEN 0
      ELSE (100 * 10 * Dot(u, v)) \div ISqrt(100 * Dot(u, u) * Dot(v, v))

\* the embeddings the model gives to the emails and to the canonical labels
\* of the categorization engine
EngineVectors == {<<1, 0>>, <<1, 1>>, <<0, 1>>, <<-1, 0>>, <<0, -1>>}

\* the similarities of the pairs of vectors of equal dimension
CosineTable ==
    [p \in {q \in (Queries \cup EngineVectors) \X (CatEmbeddings \cup EngineVectors) :
               Len(q[1]) = Len(q[2])} |->
        Cosine(p[1], p[2])]

\* cosine_similarity(query_vec, cat_vec)[0][0]
cosine_similarity(u, v) == CosineTable[<<u, v>>]

\* a filter that keeps every score
PassesAll(similarity, threshold) == TRUE

\* line 105: similarity >= threshold
Passes(similarity, threshold) == similarity >= threshold

\* lines 91-113: the loop over the categories; a category without embedding
\* or with an embedding of another dimension is skipped
RECURSIVE Similarities(_, _, _, _)
Similarities(cats, i, query, threshold) ==
    IF i > Len(cats) THEN <<>>
    ELSE LET cat_vec == cats[i].embedding
             rest == Similarities(cats, i + 1, query, threshold)
         IN  IF cat_vec = <<>> \/ Len(cat_vec) # Len(query) THEN rest
             ELSE IF Passes(cosine_similarity(query, cat_vec), threshold)
             THEN <<[category |-> cats[i].id,
                     score |-> cosine_similarity(query, cat_vec)]>> \o rest
             ELSE rest

\* x placed behind the elements of the sorted list whose score is not lower
RECURSIVE InsertDesc(_, _)
InsertDesc(x, sorted) ==
    IF sorted = <<>> THEN <<x>>
    ELSE IF Head(sorted).score >= x.score
    THEN <<Head(sorted)>> \o InsertDesc(x, Tail(sorted))
    ELSE <<x>> \o sorted

\* line 115: similarities.sort(key=lambda x: x[1], reverse=True), a stable
\* sort: elements of equal score keep their order
RECURSIVE SortDesc(_)
SortDesc(similarities) ==
    IF similarities = <<>> THEN <<>>
    ELSE InsertDesc(similarities[Len(similarities)],
                    SortDesc(SubSeq(similarities, 1, Len(similarities) - 1)))

\* similarities[:limit] for a limit that is not negative
Slice(similarities, limit) ==
    SubSeq(similarities, 1, IF limit < Len(similarities) THEN limit
                                                          ELSE Len(similarities))

\* _find_similar_in_memory
find_similar_in_memory(query, threshold, limit) ==
    Slice(SortDesc(Similarities(categories, 1, query, threshold)), limit)

\* find_similar_categories, lines 29-34, without pgvector:
\* threshold = threshold or settings.category_match_threshold
find_similar_categories(query, threshold, limit) ==
    find_similar_in_memory(query,
        IF threshold = 0 THEN category_match_threshold ELSE threshold, limit)

FindSimilarCategories(query, threshold, limit) ==
    /\ vs_op' = [query |-> query, threshold |-> threshold, limit |-> limit,
                 result |-> find_similar_categories(query, threshold, limit)]
    /\ UNCHANGED <<categories, jobVars, cacheVars, embVars, svcVars, engVars>>

\* a row is added to table "categories"
AddCategory(embedding) ==
    /\ Len(categories) < MaxCats
    /\ categories' = Append(categories,
                            [id |-> Len(categories) + 1, embedding |-> embedding])
    /\ UNCHANGED <<vs_op, jobVars, cacheVars, embVars, svcVars, engVars>>

VsNext ==
    \/ \E query \in Queries, threshold \in Thresholds, limit \in 0..MaxLimit :
          FindSimilarCategories(query, threshold, limit)
    \/ \E embedding \in CatEmbeddings : AddCategory(embedding)

VsSpec == Init /\ [][VsNext]_vars

(***************************************************************************)
(* Properties of the job table and the worker                              *)
(***************************************************************************)
\* ids of the messages that are ready in the work queue
Ready == {work_queue[i].id : i \in 1..Len(work_queue)}

\* the worker has finished with message id: _process_message has ended for
\* it, is not running for it again, and it does not wait for redelivery
Finished(id) == id \in handled /\ w_msg.id # id /\ id \notin Ready

AllowedTransitions ==
    {<<QUEUED, PROCESSING>>, <<PROCESSING, COMPLETED>>, <<PROCESSING, FAILED>>}

\* C1: every change of a job's status is queued->processing,
\* processing->completed or processing->failed; a terminal job never changes
\* status again.
C1_MonotonicStatus ==
    [][\A id \in DOMAIN task_results :
          id \in DOMAIN task_results' =>
             \/ task_results'[id].status = task_results[id].status
             \/ <<task_results[id].status, task_results'[id].status>>
                    \in AllowedTransitions]_vars

\* C2: a job whose message the worker has not yet received reports queued;
\* once the worker has finished with its message, it reports completed or
\* failed with completed_at set.
C2_QueuedThenTerminal ==
    \A id \in DOMAIN task_results :
       /\ id \notin delivered => get_task_status(id).status = QUEUED
       /\ Finished(id) =>
             /\ get_task_status(id).status \in {COMPLETED, FAILED}
             /\ get_task_status(id).completed_at

\* C3: for every message the worker has finished with, exactly one of ack
\* and nack(requeue=False) was sent; ack exactly when the processor returned
\* a result (and the job, if still in the table, is completed), nack exactly
\* when processing failed (and the job, if still in the table, is failed);
\* the message of a failed job is never ready for delivery again.
C3_ExactlyOneAckOrNack ==
    /\ \A id \in handled :
          w_msg.id # id =>
             /\ sent[id] \in {{"ack"}, {"nack"}}
             /\ "ack" \in sent[id] <=> id \in proc_ok
             /\ InTable(id) =>
                   /\ "ack" \in sent[id] => task_results[id].status = COMPLETED
                   /\ "nack" \in sent[id] => task_results[id].status = FAILED
    /\ \A id \in DOMAIN task_results :
          task_results[id].status = FAILED => id \notin Ready

\* the broker withholds ready messages from a consuming worker, because
\* messages that were neither acked nor nacked fill the prefetch window
Starved ==
    /\ w_pc = "L163"
    /\ conn = "open"
    /\ work_queue # <<>>
    /\ Len(unacked) >= PrefetchCount

\* C4: no exception leaves _process_message, whatever the message is, and
\* the messages after it are still handed to the worker.
C4_NoMessageHaltsWorker == escaped = {} /\ ~Starved

\* C5: get_task_status of an id that is not in the job table reports absence
\* (None, 404 at the endpoint), never a TaskResult with a default status, and
\* does not add an entry to the table.
C5_AbsentIsNotFound ==
    [][\A id \in 0..MaxMsgs :
          (GetTaskStatus(id) /\ ~InTable(id)) =>
             /\ task_result'.task = NoTask
             /\ task_result'.http = 404
             /\ task_results' = task_results]_vars

\* a lookup has reported not-found for a job that had been completed and was
\* removed by clear_completed_tasks
C5_Witness ==
    /\ fg_pc = "L240"
    /\ task_result.id \in MsgIds
    /\ task_result.http = 404
    /\ "ack" \in sent[task_result.id]
    /\ ~InTable(task_result.id)

\* C13: clear_completed_tasks lists exactly the jobs that are completed or
\* failed when it is called, removes exactly the listed jobs and returns
\* their number, leaves every other job as it was, and leaves both tiers of
\* the result cache and the counters unchanged; every step that removes a
\* job from the table is a step of clear_completed_tasks.
C13_ClearRemovesTerminalOnly ==
    [][/\ ClearCollect =>
             /\ completed_tasks' =
                    {id \in DOMAIN task_results :
                        task_results[id].status \in {COMPLETED, FAILED}}
             /\ task_results' = task_results
       /\ ClearDelete =>
             /\ DOMAIN task_results' = (DOMAIN task_results) \ completed_tasks
             /\ Cardinality(completed_tasks) =
                    Cardinality(DOMAIN task_results) - Cardinality(DOMAIN task_results')
             /\ \A id \in DOMAIN task_results' : task_results'[id] = task_results[id]
             /\ cacheVars' = cacheVars
       /\ (\E id \in DOMAIN task_results : id \notin DOMAIN task_results') =>
             ClearDelete]_vars

\* clear_completed_tasks has removed job 1, which had been processed and
\* acknowledged, and has left job 2, which is queued or processing
C13_Witness ==
    /\ "ack" \in sent[1]
    /\ ~InTable(1)
    /\ fg_task # 1
    /\ InTable(2)
    /\ task_results[2].status \in {QUEUED, PROCESSING}

\* the worker is about to execute a statement that reads
\* self.task_results[task_id], after the membership test that guards it
UpdatesRecord == w_pc \in {"L180", "L188", "L189", "L190", "L206", "L207", "L208"}

\* C14: the worker's updates and the foreground's queue_task and
\* clear_completed_tasks act as if they ran one after another: a record the
\* worker has found in the table is there for the statements that update it
\* (no KeyError), no job whose processor returned a result has its message
\* nacked, and clear_completed_tasks deletes no job that is no longer
\* completed or failed.
C14_TableSerialized ==
    /\ [](UpdatesRecord => InTable(w_msg.id))
    /\ [](\A id \in proc_ok : "nack" \notin sent[id])
    /\ [][ClearDelete =>
            \A id \in completed_tasks :
               task_results[id].status \in {COMPLETED, FAILED}]_vars

\* the status of job id becomes processing in this step
BecomesProcessing(id) ==
    /\ InTable(id)
    /\ id \in DOMAIN task_results'
    /\ task_results[id].status # PROCESSING
    /\ task_results'[id].status = PROCESSING

\* C15: when a job reaches processing, every job whose message was handed
\* to the worker before has reached processing and its terminal status: its
\* record, if the table holds it or queue_task is about to store it, is
\* completed or failed.
C15_DeliveryOrder ==
    [][\A id2 \in MsgIds :
          BecomesProcessing(id2) =>
             \A id1 \in delivered \ {id2} :
                /\ fg_task # id1
                /\ InTable(id1) => task_results[id1].status \in {COMPLETED, FAILED}]_vars

\* the worker is blocked in start_consuming on an open channel
Consuming == w_pc = "L163" /\ conn = "open"

\* C16: the worker thread leaves _worker_loop only when is_running is false,
\* and a running worker that is not consuming (no connection, a closed one,
\* or an exception out of start_consuming) is consuming again eventually if
\* from then on the broker stays reachable and is_running stays true.
C16_WorkerReconnects ==
    /\ [][(w_pc # "dead" /\ w_pc' = "dead") => ~is_running]_vars
    /\ []((w_pc # "dead" /\ [](broker_up /\ is_running)) => <>Consuming)

\* the worker is consuming again after it lost its connection: a message it
\* had been handed is back in the queue, which only a lost connection does
C16_Witness ==
    /\ Consuming
    /\ drops > 0
    /\ \E i \in 1..Len(work_queue) : work_queue[i].id \in delivered

(***************************************************************************)
(* Properties of the result cache                                          *)
(***************************************************************************)
\* a step of get_cached_result(k): the call, or a pass of its scan loop
LookupStep(k) == GetCachedResult(k) \/ (ScanStep /\ scan_key = k)

\* the messages of queue q that carry key k, in queue order
EntriesFor(q, k) == SelectSeq(q, LAMBDA m : m.key = k)

\* what the last finished call returned
Returned == calls[Len(calls)].val

\* C6: cache_result(k, r) followed by two get_cached_result(k) within the TTL
\* and with no other call between them returns r both times, adds 2 to
\* cache_hits and leaves cache_misses unchanged.
C6_CachingIdempotence ==
    (Len(calls) = 3 /\ clock < calls[1].t + result_cache_ttl) =>
       /\ calls[2].val = calls[1].val
       /\ calls[3].val = calls[1].val
       /\ cache_hits = calls[1].hits + 2
       /\ cache_misses = calls[1].misses

\* C7: when cache_result(key, result) has returned, the result queue holds a
\* message for key that carries result, and the in-memory tier maps key to
\* result with expiry = time of the write + result_cache_ttl.
C7_BothTiersWritten ==
    [][\A k \in Keys, r \in Results :
          CacheResult(k, r) =>
             /\ \E i \in 1..Len(result_queue') :
                   /\ result_queue'[i].key = k
                   /\ json_loads(result_queue'[i].result) = r
             /\ k \in DOMAIN result_cache'
             /\ result_cache'[k] = r
             /\ result_cache_expiry'[k] = clock + result_cache_ttl]_vars

\* C8: a lookup whose key the in-memory tier holds unexpired returns that
\* value without touching the result queue; the scan of the result queue
\* starts only on an in-memory miss; and a scan that ends while the queue
\* holds messages for the key returns the first of them and leaves it in the
\* in-memory tier, unexpired.
C8_MemoryFirstThenDurable ==
    [][\A k \in Keys :
          LookupStep(k) =>
             /\ (fg_pc = "idle" /\ MemoryHit(k, clock)) =>
                   /\ fg_pc' = "idle"
                   /\ Returned' = result_cache[k]
                   /\ result_queue' = result_queue
             /\ (fg_pc = "idle" /\ fg_pc' = "L285") => ~MemoryHit(k, clock)
             /\ (fg_pc = "L285" /\ fg_pc' = "idle" /\ conn = "open"
                   /\ EntriesFor(result_queue, k) # <<>>) =>
                   /\ Returned' = json_loads(EntriesFor(result_queue, k)[1].result)
                   /\ k \in DOMAIN result_cache'
                   /\ result_cache'[k] = Returned'
                   /\ result_cache_expiry'[k] > clock]_vars

\* what a scan for k finds at the head of queue q
HeadFor(q, k) ==
    IF q # <<>> /\ q[1].key = k THEN json_loads(q[1].result) ELSE None

\* C9: a step of get_cached_result(key) leaves the messages of every other
\* key in the result queue, in their order, and a message of another key
\* that a lookup could take before the step can still be taken after it.
C9_ScanKeepsOtherKeys ==
    [][\A k \in Keys :
          LookupStep(k) =>
             \A k2 \in Keys \ {k} :
                /\ EntriesFor(result_queue', k2) = EntriesFor(result_queue, k2)
                /\ HeadFor(result_queue, k2) # None =>
                      HeadFor(result_queue', k2) = HeadFor(result_queue, k2)]_vars

\* a scan has nacked a message of another key, and the message is still at
\* the head of the result queue
C9_Witness ==
    /\ fg_pc = "L285"
    /\ scan_requeued
    /\ result_queue # <<>>
    /\ result_queue[1].key # scan_key

\* C10: a get_cached_result that returns has added 1 to exactly one of
\* cache_hits (it returns a result) and cache_misses (it returns None), and
\* a step of its loop that does not return changes neither counter.
C10_ExactlyOneCounter ==
    [][\A k \in Keys :
          LookupStep(k) =>
             IF fg_pc' = "idle"
               THEN IF Returned' # None
                      THEN cache_hits' = cache_hits + 1 /\ cache_misses' = cache_misses
                      ELSE cache_hits' = cache_hits /\ cache_misses' = cache_misses + 1
               ELSE cache_hits' = cache_hits /\ cache_misses' = cache_misses]_vars

\* the newest message of queue q that carries key k: the last successful
\* cache_result(k, .) whose message the broker still holds
Newest(q, k) == EntriesFor(q, k)[Len(EntriesFor(q, k))]

\* a lookup of k returns a value in this step
Returns(k) == LookupStep(k) /\ fg_pc' = "idle" /\ Returned' # None

\* C11: a lookup that returns a value for k while the result queue holds
\* messages for k (the writes to k that have not expired) returns the value
\* of the newest of them, the last write, whether it is served from the
\* in-memory tier or from the result queue.
C11_LastWriteWins ==
    [][\A k \in Keys :
          (Returns(k) /\ EntriesFor(result_queue, k) # <<>>) =>
             Returned' = json_loads(Newest(result_queue, k).result)]_vars

\* no step other than a cache_result(k, .) changes a value the in-memory tier
\* holds for k, or the body of a message of k in the result queue
ValueKept(k) ==
    /\ (k \in DOMAIN result_cache /\ k \in DOMAIN result_cache') =>
          result_cache'[k] = result_cache[k]
    /\ \A i \in 1..Len(EntriesFor(result_queue', k)) :
          \E j \in 1..Len(EntriesFor(result_queue, k)) :
             EntriesFor(result_queue', k)[i] = EntriesFor(result_queue, k)[j]

\* C12: every lookup of k that follows a cache_result(k, r), with no other
\* call between them, and returns a value returns r; and no step other than
\* a cache_result(k, .) changes the value stored for k in either tier.
C12_ImmutableUntilOverwritten ==
    /\ [][\A k \in Keys :
            (\A r \in Results : ~CacheResult(k, r)) => ValueKept(k)]_vars
    /\ [](\A i \in 2..Len(calls) :
            calls[i].val # None => calls[i].val = calls[1].val)

(***************************************************************************)
(* Properties of EmbeddingCache                                            *)
(***************************************************************************)
\* queue c without its i-th entry
RemoveAt(c, i) == [j \in 1..(Len(c) - 1) |-> IF j < i THEN c[j] ELSE c[j + 1]]

C18_TtlThenAbsent ==
    [][\A key \in EmbKeys :
          /\ \A embedding \in Embeddings :
                EmbSet(key, embedding) =>
                   /\ Has(emb_cache', key)
                   /\ Entry(emb_cache', key).embedding = embedding
                   /\ Entry(emb_cache', key).timestamp = clock
          /\ EmbGet(key) =>
                IF Has(emb_cache, key) /\ clock - Entry(emb_cache, key).timestamp < ttl
                  THEN /\ emb_op'.val = Entry(emb_cache, key).embedding
                       /\ emb_cache' = emb_cache
                  ELSE /\ emb_op'.val = None
                       /\ ~Has(emb_cache', key)
          /\ (Has(emb_cache, key) /\ Has(emb_cache', key)
                /\ \A embedding \in Embeddings : ~EmbSet(key, embedding)) =>
                Entry(emb_cache', key) = Entry(emb_cache, key)]_vars

\* a get has found an entry whose age had reached ttl, removed it and
\* returned absent
C18_Witness ==
    /\ emb_op.op = "get"
    /\ emb_op.removed = emb_op.key
    /\ emb_op.val = None
    /\ ~Has(emb_cache, emb_op.key)

(***************************************************************************)
(* Properties of generate_embedding                                        *)
(***************************************************************************)
\* C19: generate_embedding returns a vector of length embedding_dim for
\* every text; for an empty or whitespace-only text it is the zero vector
\* and the model is not invoked; when the model invocation fails it is the
\* zero vector.
C19_EmbeddingTotal ==
    [][\A text \in Texts, fails \in BOOLEAN :
          GenerateEmbedding(text, fails) =>
             /\ Len(svc_op'.ret) = embedding_dim
             /\ (\A i \in 1..Len(text) : text[i] = " ") =>
                   /\ svc_op'.ret = ZeroVector
                   /\ ~svc_op'.invoked
             /\ (svc_op'.invoked /\ fails) => svc_op'.ret = ZeroVector]_vars

\* the model was invoked for a text that is not blank, the invocation
\* failed, and the zero vector was returned
C19_Witness ==
    /\ svc_op.invoked
    /\ svc_op.text # <<>>
    /\ svc_op.ret = ZeroVector
    /\ svc_cache = <<>>

Prefixes ==
    {<<>>, <<"R", "e", ":">>, <<"R", "E", ":">>, <<"f", "w", "d", ":">>,
     <<"F", "w", ":">>, <<"R", "e", ":", "r", "e", ":">>}

Gaps == {<<>>, <<" ">>}

BodyChars == {" ", "a", "B"}

Bodies == UNION {[1..n -> BodyChars] : n \in 0..MaxLen}

Subjects == {p \o g \o b : p \in Prefixes, g \in Gaps, b \in Bodies}

\* str.lower() of one character
LowerChar(ch) ==
    CASE ch = "R" -> "r"
      [] ch = "E" -> "e"
      [] ch = "F" -> "f"
      [] ch = "B" -> "b"
      [] OTHER -> ch

\* line 22: subject.lower()
lower(subject) == [i \in 1..Len(subject) |-> LowerChar(subject[i])]

\* the subject starts with the prefix, ignoring case (re.IGNORECASE)
StartsWith(subject, prefix) ==
    /\ Len(subject) >= Len(prefix)
    /\ lower(SubSeq(subject, 1, Len(prefix))) = prefix

DropChars(subject, n) == SubSeq(subject, n + 1, Len(subject))

\* line 17: re.sub(r'^(Re:|RE:|Fwd:|FWD:|Fw:)\s*', '', subject,
\* flags=re.IGNORECASE): one prefix at the very start and the whitespace
\* behind it are removed
remove_prefix(subject) ==
    IF StartsWith(subject, <<"r", "e", ":">>) THEN lstrip(DropChars(subject, 3))
    ELSE IF StartsWith(subject, <<"f", "w", "d", ":">>)
    THEN lstrip(DropChars(subject, 4))
    ELSE IF StartsWith(subject, <<"f", "w", ":">>) THEN lstrip(DropChars(subject, 3))
    ELSE subject

\* line 20: re.sub(r'\s+', ' ', subject): a run of whitespace becomes one
\* space
RECURSIVE collapse(_)
collapse(subject) ==
    IF subject = <<>> THEN <<>>
    ELSE IF Head(subject) = " "
    THEN <<" ">> \o collapse(lstrip(subject))
    ELSE <<Head(subject)>> \o collapse(Tail(subject))

\* normalize_subject, lines 13-22
normalize_subject(subject) ==
    IF subject = <<>> THEN <<>>
    ELSE lower(strip(collapse(remove_prefix(subject))))

\* Python's "needle in hay" for strings
Contains(needle, hay) ==
    \E i \in 0..(Len(hay) - Len(needle)) :
        SubSeq(hay, i + 1, i + Len(needle)) = needle

\* the test of line 27 left out
is_thread_continuation_unguarded(current_subject, thread_subject) ==
    LET normalized_current == normalize_subject(current_subject)
        normalized_thread == normalize_subject(thread_subject)
    IN  \/ normalized_current = normalized_thread
        \/ Contains(normalized_thread, normalized_current)
        \/ Contains(normalized_current, normalized_thread)

\* is_thread_continuation, lines 27-45
is_thread_continuation(current_subject, thread_subject) ==
    IF current_subject = <<>> \/ thread_subject = <<>> THEN FALSE
    ELSE LET normalized_current == normalize_subject(current_subject)
             normalized_thread == normalize_subject(thread_subject)
         IN  \/ normalized_current = normalized_thread
             \/ Contains(normalized_thread, normalized_current)
             \/ Contains(normalized_current, normalized_thread)

\* the call is made with the two subjects
IsThreadContinuation ==
    /\ ~thr_op.called
    /\ thr_op' = [thr_op EXCEPT !.called = TRUE,
                     !.result = is_thread_continuation(thr_op.current,
                                                       thr_op.thread)]
    /\ UNCHANGED <<jobVars, cacheVars, embVars, svcVars, vsVars, pgVars, canVars,
                   catVars>>

\* the two subjects are any two of Subjects
ThrInit ==
    /\ Start
    /\ thr_op \in {[current |-> c, thread |-> t, called |-> FALSE,
                    result |-> FALSE] : c \in Subjects, t \in Subjects}
    /\ fp_op = NoFpOp

ThrNext == IsThreadContinuation

ThrSpec == ThrInit /\ [][ThrNext]_vars

(***************************************************************************)
(* Properties of is_thread_continuation                                    *)
(***************************************************************************)
\* the words of a subject: its maximal runs of characters other than space
RECURSIVE Words(_, _)
Words(subject, word) ==
    IF subject = <<>> THEN (IF word = <<>> THEN <<>> ELSE <<word>>)
    ELSE IF Head(subject) = " "
    THEN (IF word = <<>> THEN <<>> ELSE <<word>>) \o Words(Tail(subject), <<>>)
    ELSE Words(Tail(subject), Append(word, Head(subject)))

RECURSIVE Join(_)
Join(words) ==
    IF words = <<>> THEN <<>>
    ELSE IF Len(words) = 1 THEN Head(words)
    ELSE Head(words) \o <<" ">> \o Join(Tail(words))

ReplyPrefixes == {<<"r", "e", ":">>, <<"f", "w", ":">>, <<"f", "w", "d", ":">>}

\* the normalized form: one leading reply/forward prefix stripped without
\* regard to case, the words joined by single spaces, lower-cased
NormalForm(subject) ==
    LET low == lower(subject)
        found == {p \in ReplyPrefixes : StartsWith(low, p)}
        rest == IF found = {} THEN low
                ELSE DropChars(low, Len(CHOOSE p \in found : TRUE))
    IN  Join(Words(rest, <<>>))

\* the normalized forms are equal or one is a substring of the other
SameThread(current, thread) ==
    \/ NormalForm(current) = NormalForm(thread)
    \/ Contains(NormalForm(thread), NormalForm(current))
    \/ Contains(NormalForm(current), NormalForm(thread))

\* C22 as stated: for all pairs of subjects, the empty ones included,
\* is_thread_continuation is true exactly when the normalized forms are equal
\* or one is a substring of the other.
C22_ContinuationAllSubjects ==
    thr_op.called => (thr_op.result <=> SameThread(thr_op.current, thr_op.thread))

\* C22 amended: for all pairs of non-empty subjects is_thread_continuation is
\* true exactly when the normalized forms are equal or one is a substring of
\* the other, and it is false when one of the two subjects is empty.
C22_ContinuationNonEmpty ==
    thr_op.called =>
        IF thr_op.current = <<>> \/ thr_op.thread = <<>>
          THEN ~thr_op.result
          ELSE thr_op.result <=> SameThread(thr_op.current, thr_op.thread)

\* a reply to the thread's subject, in capitals and with a doubled space, is
\* found to continue it
C22_Witness ==
    /\ thr_op.called
    /\ thr_op.result
    /\ thr_op.current = <<"R", "E", ":", " ", " ", "B">>
    /\ thr_op.thread = <<"B">>

(***************************************************************************)
(* VectorStore.find_similar_categories, pgvector path                      *)
(* (ai/app/vector_store.py, lines 36-75).  Distances are in hundredths.    *)
(***************************************************************************)
\* the sum of the squares of the differences of the components
RECURSIVE SquaredDistance(_, _)
SquaredDistance(u, v) ==
    IF u = <<>> THEN 0
    ELSE (Head(u) - Head(v)) * (Head(u) - Head(v))
         + SquaredDistance(Tail(u), Tail(v))

\* c.embedding <-> query_vector, the Euclidean distance, for the pairs of
\* vectors of equal dimension
DistanceTable ==
    [p \in {q \in Queries \X CatEmbeddings : Len(q[1]) = Len(q[2])} |->
        ISqrt(10000 * SquaredDistance(p[1], p[2]))]

\* the rows the statement of lines 47-53 can compare with the query
Comparable(query) ==
    SelectSeq(categories, LAMBDA c : Len(c.embedding) = Len(query))

\* WHERE distance < :threshold, the parameter being 1 - threshold (line 59);
\* lines 64-69: similarity = 1 - row.distance
RECURSIVE NativeRows(_, _, _, _)
NativeRows(cats, i, query, threshold) ==
    IF i > Len(cats) THEN <<>>
    ELSE LET distance == DistanceTable[<<query, cats[i].embedding>>]
             rest == NativeRows(cats, i + 1, query, threshold)
         IN  IF distance < 100 - threshold
               THEN <<[category |-> cats[i].id, score |-> 100 - distance]>>
                    \o rest
               ELSE rest

\* ORDER BY distance LIMIT :limit
native_query(query, threshold, limit) ==
    Slice(SortDesc(NativeRows(Comparable(query), 1, query, threshold)), limit)

\* line 75: the fallback is called with the threshold of the caller
fallback_threshold(threshold) == threshold

\* find_similar_categories with use_pgvector set, lines 29-32 and 44-75.
\* The native query returns rows, or it raises: the database is unreachable,
\* or it refuses the statement; a refused statement can leave the session
\* unable to run another one (there is no rollback before line 75).  The
\* fallback reads the categories through the same session (line 86, outside
\* any try), so it raises when the session cannot run a statement.
FindSimilarPgvector(query, threshold, limit, native, breaks) ==
    LET given == IF threshold = 0 THEN category_match_threshold ELSE threshold
    IN  /\ native = "rows" => db_ok /\ ~breaks
        /\ db_ok' = (db_ok /\ ~breaks)
        /\ pg_op' =
             [query |-> query, threshold |-> threshold, limit |-> limit,
              native |-> native,
              raised |-> IF native = "error" /\ ~db_ok' THEN "in_memory"
                                                       ELSE None,
              result |->
                 IF native = "rows" THEN native_query(query, given, limit)
                 ELSE IF db_ok'
                 THEN find_similar_in_memory(query, fallback_threshold(given),
                                             limit)
                 ELSE <<>>]
        /\ UNCHANGED <<jobVars, cacheVars, embVars, svcVars, vsVars, thr_op, canVars,
                       catVars>>

\* the database becomes unreachable
DbDown ==
    /\ db_ok
    /\ db_ok' = FALSE
    /\ UNCHANGED <<pg_op, jobVars, cacheVars, embVars, svcVars, vsVars, thr_op,
                   canVars, catVars>>

\* the database is reachable again, and the next request has a new session
\* (main.py, SessionLocal() per request)
DbUp ==
    /\ ~db_ok
    /\ db_ok' = TRUE
    /\ UNCHANGED <<pg_op, jobVars, cacheVars, embVars, svcVars, vsVars, thr_op,
                   canVars, catVars>>

PgNext ==
    \/ \E query \in Queries, threshold \in Thresholds, limit \in 0..MaxLimit,
          native \in {"rows", "error"}, breaks \in BOOLEAN :
          FindSimilarPgvector(query, threshold, limit, native, breaks)
    \/ \E embedding \in CatEmbeddings : AddCategory(embedding)
    \/ DbDown
    \/ DbUp

PgSpec == Init /\ [][PgNext]_vars

(***************************************************************************)
(* Properties of the pgvector path                                         *)
(***************************************************************************)
\* C21: when the native query raises, find_similar_categories raises nothing
\* and returns what the in-memory path returns for the same query vector,
\* threshold and limit.
C21_NativeErrorFallsBack ==
    [][(pg_op' # pg_op /\ pg_op'.native = "error") =>
          /\ pg_op'.raised = None
          /\ pg_op'.result =
               find_similar_categories(pg_op'.query, pg_op'.threshold,
                                       pg_op'.limit)]_vars

(***************************************************************************)
(* The canonical labels: generate_category_name and the admin tools        *)
(* (ai/app/service.py, lines 122-168).  A text is one word and the         *)
(* embedding the model gives it; "keyword in text_lower" is the test that  *)
(* the lower-cased word is the keyword.                                    *)
(***************************************************************************)
\* meaningful texts of emails
EmailTexts ==
    {[word |-> "Invoice", emb |-> <<1, 0>>],
     [word |-> "account", emb |-> <<1, 1>>],
     [word |-> "bill", emb |-> <<0, 1>>],
     [word |-> "meeting", emb |-> <<-1, 0>>],
     [word |-> "hello", emb |-> <<0, -1>>],
     [word |-> "funds", emb |-> <<1, 0>>]}

\* text.lower()
LowerWord(word) == IF word = "Invoice" THEN "invoice" ELSE word

\* self.model.encode(cat): the embedding of a label
LabelEmbedding(label) ==
    CASE label = "work" -> <<-1, 0>>
      [] label = "finance" -> <<1, 0>>
      [] label = "tech" -> <<1, 1>>
      [] label = "legal" -> <<0, -1>>
      [] OTHER -> <<0, 1>>

\* the keys of a table
Labels(table) == {table[i].label : i \in 1..Len(table)}

\* lines 125-127: the first entry of the table, in its order, one of whose
\* keywords occurs in the text; None when there is none
RECURSIVE FirstHit(_, _, _)
FirstHit(table, i, text_lower) ==
    IF i > Len(table) THEN None
    ELSE IF text_lower \in table[i].keywords THEN table[i].label
    ELSE FirstHit(table, i + 1, text_lower)

\* service._calculate_similarity, lines 332-340
calculate_similarity(embedding1, embedding2) ==
    IF Len(embedding1) = Len(embedding2) /\ embedding1 # <<>>
      THEN cosine_similarity(embedding1, embedding2)
      ELSE 0

\* lines 130-136: the label of the highest similarity above 0, the first one
\* among equals
RECURSIVE Best(_, _, _, _)
Best(embeddings, i, input_emb, best) ==
    IF i > Len(embeddings) THEN best
    ELSE LET sim == calculate_similarity(input_emb,
                                         LabelEmbedding(embeddings[i]))
         IN  Best(embeddings, i + 1, input_emb,
                  IF sim > best.sim THEN [cat |-> embeddings[i], sim |-> sim]
                                    ELSE best)

embedding_threshold == 50  \* EmailCategorizationService.embedding_threshold

\* generate_category_name, lines 122-140
generate_category_name(text) ==
    LET hit == FirstHit(canonical_categories, 1, LowerWord(text.word))
        best == Best(canonical_embeddings, 1, text.emb,
                     [cat |-> "general", sim |-> 0])
    IN  IF hit # None THEN hit
        ELSE IF best.sim >= embedding_threshold THEN best.cat
        ELSE "general"

\* cls.canonical_categories[name] = keywords: a new key goes to the end of
\* the dict, a key it has keeps its place
SetEntry(table, name, keywords) ==
    IF name \in Labels(table)
      THEN [i \in 1..Len(table) |->
              IF table[i].label = name
                THEN [label |-> name, keywords |-> keywords]
                ELSE table[i]]
      ELSE Append(table, [label |-> name, keywords |-> keywords])

\* del cls.canonical_categories[name]
DelEntry(table, name) == SelectSeq(table, LAMBDA e : e.label # name)

\* labels and keyword lists an administrator sends
AdminLabels == {"finance", "legal"}

AdminKeywords == {{}, {"funds"}}

\* add_canonical, lines 147-153: the class-level table is changed; then a new
\* instance is made (cls()), its embeddings are computed, and it is dropped.
\* The instance that serves the requests is categorization_service (line
\* 393), whose canonical_embeddings is its own attribute, set at line 56
\* when it was made.
AddCanonical(name, keywords) ==
    /\ canonical_categories' = SetEntry(canonical_categories, name, keywords)
    /\ admin_embeddings' = precompute_canonical_embeddings(canonical_categories')
    /\ UNCHANGED <<canonical_embeddings, can_op>>
    /\ UNCHANGED <<jobVars, cacheVars, embVars, svcVars, vsVars, pgVars, thr_op,
                   catVars>>

\* remove_canonical, lines 155-161
RemoveCanonical(name) ==
    /\ IF name \in Labels(canonical_categories)
         THEN /\ canonical_categories' = DelEntry(canonical_categories, name)
              /\ admin_embeddings' =
                    precompute_canonical_embeddings(canonical_categories')
         ELSE UNCHANGED <<canonical_categories, admin_embeddings>>
    /\ UNCHANGED <<canonical_embeddings, can_op>>
    /\ UNCHANGED <<jobVars, cacheVars, embVars, svcVars, vsVars, pgVars, thr_op,
                   catVars>>

\* update_keywords, lines 163-168
UpdateKeywords(name, keywords) ==
    /\ canonical_categories' = SetEntry(canonical_categories, name, keywords)
    /\ admin_embeddings' = precompute_canonical_embeddings(canonical_categories')
    /\ UNCHANGED <<canonical_embeddings, can_op>>
    /\ UNCHANGED <<jobVars, cacheVars, embVars, svcVars, vsVars, pgVars, thr_op,
                   catVars>>

\* a request derives the name of a new category
GenerateCategoryName(text) ==
    /\ can_op' = [text |-> text, name |-> generate_category_name(text)]
    /\ UNCHANGED <<canonical_categories, canonical_embeddings, admin_embeddings>>
    /\ UNCHANGED <<jobVars, cacheVars, embVars, svcVars, vsVars, pgVars, thr_op,
                   catVars>>

CanNext ==
    \/ \E name \in AdminLabels, keywords \in AdminKeywords :
          AddCanonical(name, keywords)
    \/ \E name \in AdminLabels : RemoveCanonical(name)
    \/ \E name \in AdminLabels, keywords \in AdminKeywords :
          UpdateKeywords(name, keywords)
    \/ \E text \in EmailTexts : GenerateCategoryName(text)

CanSpec == Init /\ [][CanNext]_vars

(***************************************************************************)
(* Properties of the canonical labels                                      *)
(***************************************************************************)
SetOf(seq) == {seq[i] : i \in 1..Len(seq)}

\* C30: when a request is served, the labels that have a precomputed
\* embedding in the serving instance are the labels of the keyword table,
\* and the name it derives is a label of the table (or the default).
C30_EmbeddingsFollowTable ==
    [][can_op' # can_op =>
          /\ SetOf(canonical_embeddings) = Labels(canonical_categories)
          /\ can_op'.name \in Labels(canonical_categories) \cup {"general"}]_vars

(***************************************************************************)
(* The content hash of an email (service.py lines 173 and 294, main.py      *)
(* lines 139 and 208)                                                       *)
(***************************************************************************)
\* subjects and bodies of emails, as sequences of characters; one body reads
\* like a subject
HashSubjects == {<<>>, <<"B">>, <<"L">>}
HashBodies == {<<>>, <<"s">>, <<"c">>, <<"B">>}

\* hashlib.sha256(text.encode()).hexdigest(): texts that differ have
\* digests that differ
sha256(text) == <<"sha256", text>>

\* the operand (request.subject or "" + request.body or ""): + binds tighter
\* than or, so this is subject or ("" + body) or "": the subject when it is
\* not empty, and else the body
content_hash(subject, body) ==
    sha256(IF subject # <<>> THEN subject
           ELSE IF body # <<>> THEN body
           ELSE <<>>)

\* the content hashes of the two emails are computed
ContentHash ==
    /\ ~fp_op.called
    /\ fp_op' = [fp_op EXCEPT
                    !.called = TRUE,
                    !.first_hash = content_hash(fp_op.first.subject,
                                                fp_op.first.body),
                    !.second_hash = content_hash(fp_op.second.subject,
                                                 fp_op.second.body)]
    /\ UNCHANGED <<jobVars, cacheVars, embVars, svcVars, vsVars, pgVars, thr_op,
                   canVars, eng_pc, eng_loc, eng_out, reqs>>

HashEmails == [subject : HashSubjects, body : HashBodies]

\* the two emails are any two of HashEmails
HashInit ==
    /\ Start
    /\ thr_op = NoThrOp
    /\ fp_op \in [first : HashEmails, second : HashEmails, called : {FALSE},
                  first_hash : {None}, second_hash : {None}]

HashNext == ContentHash

HashSpec == HashInit /\ [][HashNext]_vars

(***************************************************************************)
(* The categorization engine: categorize_standalone_email,                 *)
(* categorize_threaded_email, _create_new_category_response and            *)
(* _fallback_response (ai/app/service.py, lines 170-390) over table        *)
(* "categories" (ai/app/crud.py).  The two contexts run requests, each     *)
(* with a session of its own.  A request is cut into steps where a write   *)
(* of the other context can change what it does next: between the matcher  *)
(* and create_category, and between the lookup of "General" and its        *)
(* creation.  An outage of the database is seen by the first database      *)
(* statement of a step.  Scores are in hundredths.                         *)
(***************************************************************************)
thread_consistency_threshold == 50   \* settings.thread_consistency_threshold
confidence_boost_for_threads == 20   \* settings.confidence_boost_for_threads

\* a reply to the thread, and a subject that has nothing in common with
\* the thread's
ReplySubject == <<"R", "e", ":", " ", "a">>
ThreadSubject == <<"a">>
OtherSubject == <<"B">>

Text(word) == CHOOSE t \in EmailTexts : t.word = word

StandaloneRequest(word) ==
    [kind |-> "standalone", text |-> Text(word), previous_category |-> None,
     subject |-> <<>>, thread_subject |-> <<>>]

ThreadedRequest(word, previous_category, subject) ==
    [kind |-> "threaded", text |-> Text(word),
     previous_category |-> previous_category,
     subject |-> subject, thread_subject |-> ThreadSubject]

StandaloneRequests == {StandaloneRequest(w) : w \in {"bill", "Invoice", "hello"}}

ThreadedRequests ==
    {ThreadedRequest("bill", "Finance", ReplySubject),
     ThreadedRequest("account", "Finance", ReplySubject),
     ThreadedRequest("bill", "Finance", OtherSubject)}

Requests == StandaloneRequests \cup ThreadedRequests

\* func.lower(Category.name), str.lower() of a name
LowerName(name) ==
    CASE name = "General" -> "general"
      [] name = "Finance" -> "finance"
      [] OTHER -> name

\* crud.get_category_by_name, lines 35-37: the first row whose name equals
\* the name without regard to case; 0 for None
get_category_by_name(name) ==
    LET found == {i \in 1..Len(categories) :
                     LowerName(categories[i].name) = LowerName(name)}
    IN  IF found = {} THEN 0 ELSE CHOOSE i \in found : \A j \in found : i <= j

\* no constraint on the names
NameFree(name) == FALSE

\* models.py line 11: name = Column(String(255), unique=True): the insert of
\* a name that a row has already is refused
NameTaken(name) == \E i \in 1..Len(categories) : categories[i].name = name

\* crud.create_category, lines 14-23: the row is inserted with email_count 0
create_category(name, embedding) ==
    Append(categories, [id |-> Len(categories) + 1, name |-> name,
                        embedding |-> embedding, email_count |-> 0])

\* crud.update_category_email_count, lines 61-66, with increment 1
update_category_email_count(category_id) ==
    [categories EXCEPT ![category_id].email_count = @ + 1]

\* line 286: min(0.95, similarity + confidence_boost_for_threads)
boosted_confidence(similarity) ==
    IF similarity + confidence_boost_for_threads < 95
      THEN similarity + confidence_boost_for_threads
      ELSE 95

\* schemas.py lines 7-15: the fields of StandaloneEmailRequest
StandaloneFields ==
    {"email_id", "subject", "body", "snippet", "sender_email",
     "recipient_emails", "timestamp", "labels"}

\* schemas.py lines 32-47: the fields of ThreadedEmailRequest
ThreadedFields ==
    StandaloneFields \cup {"thread_id", "thread_subject", "previous_category",
                           "previous_email_snippet", "thread_email_count"}

\* request.<name> has a value: the attribute of a pydantic model that is not
\* one of its fields raises AttributeError.  Neither request schema has a
\* field user_id, which lines 210, 289, 312, 373 and 388 read.
HasAttr(request, name) ==
    name \in (IF request.kind = "threaded" THEN ThreadedFields
                                             ELSE StandaloneFields)

\* what the steps of a request leave alone beside the engine and the table
engFrame == <<jobOnly, broker_up, fg_pc, cache_hits, cache_misses, clock,
              scan_key, scan_now, scan_requeued, calls, embVars, svcVars, vs_op,
              pg_op, thr_op, canVars, fp_op>>

\* the connection and the tiers of the result cache, which a response is
\* written to
tiers == <<conn, result_queue, result_cache, result_cache_expiry, written>>

\* the id of the email of a request: every email of the model has its own
email_id(request) == <<"id", request.kind, request.text.word, request.subject>>

\* the content hash of a request, whose body is its text
request_hash(request) == content_hash(request.subject, <<request.text.word>>)

\* response.dict(): the dict of a CategorizationResponse holds the datetime
\* processing_timestamp (schemas.py line 74, service.py line 351)
ResponseDict == "dt"

\* cache_result(email_id, response.dict()) and then
\* cache_result(content_hash, response.dict()), lines 214-215, 234-235 and
\* 293-294
cache_response(request) ==
    LET keys == <<email_id(request), request_hash(request)>>
        expires == clock + result_cache_ttl
        message(key) == [key |-> key, result |-> json_dumps(ResponseDict),
                         expires |-> expires]
    IN  /\ conn' = EnsureChannel
        /\ IF JsonSerializable(ResponseDict) /\ conn' = "open"
             THEN /\ result_queue' =
                        result_queue \o <<message(keys[1]), message(keys[2])>>
                  /\ result_cache' =
                        Put(Put(result_cache, keys[1], ResponseDict),
                            keys[2], ResponseDict)
                  /\ result_cache_expiry' =
                        Put(Put(result_cache_expiry, keys[1], expires),
                            keys[2], expires)
                  /\ written' = Put(Put(written, keys[1], clock), keys[2], clock)
             ELSE UNCHANGED <<result_queue, result_cache, result_cache_expiry,
                              written>>

\* what get_cached_result(key) answers; its counters and the promotion of
\* the entry it finds are no part of a request's outcome
cached_answer(key) ==
    LET found == {i \in DOMAIN result_queue : result_queue[i].key = key}
        first == CHOOSE i \in found : \A j \in found : i <= j
    IN  IF MemoryHit(key, clock) THEN result_cache[key]
        ELSE IF EnsureChannel = "open" /\ found # {}
          THEN json_loads(result_queue[first].result)
          ELSE None

\* lines 175-183: the result cache answers for the email id or, failing
\* that, for the content hash
Replayed(request) ==
    \/ Truthy(cached_answer(email_id(request)))
    \/ Truthy(cached_answer(request_hash(request)))

\* the request of context c goes on at statement pc with locals loc
Resume(c, pc, loc) ==
    /\ eng_pc' = [eng_pc EXCEPT ![c] = pc]
    /\ eng_loc' = [eng_loc EXCEPT ![c] = loc]
    /\ UNCHANGED <<eng_out, tiers>>

\* the request of context c ends with the outcome loc
End(c, loc) ==
    /\ eng_pc' = [eng_pc EXCEPT ![c] = "idle"]
    /\ eng_loc' = [eng_loc EXCEPT ![c] = Idle]
    /\ eng_out' = [eng_out EXCEPT ![c] = [loc EXCEPT !.done = TRUE]]

\* the request of context c ends without a write to the result cache
Finish(c, loc) == End(c, loc) /\ UNCHANGED tiers

\* the request of context c caches its response and returns it
Respond(c, loc) == End(c, loc) /\ cache_response(loc.request)

\* an exception inside the try block: the except clause (lines 238-241,
\* 326-329) calls _fallback_response
Raise(c, loc, db) ==
    Resume(c, "F381", [loc EXCEPT !.path = Append(@, "FALLBACK"),
                                !.db_error = @ \/ db])

\* an exception inside _fallback_response leaves the function that called
\* it; when that is categorize_standalone_email called at line 322, the
\* except clause of categorize_threaded_email calls _fallback_response again
Propagate(c, loc, db) ==
    IF loc.inner
      THEN Resume(c, "F381", [loc EXCEPT !.inner = FALSE, !.db_error = @ \/ db,
                                       !.path = Append(@, "FALLBACK")])
      ELSE Finish(c, [loc EXCEPT !.raised = TRUE, !.db_error = @ \/ db])

\* a request arrives at an endpoint or is taken from the queue
Submit(c, request) ==
    /\ eng_pc[c] = "idle"
    /\ reqs < MaxReqs
    /\ reqs' = reqs + 1
    /\ eng_pc' = [eng_pc EXCEPT ![c] = IF request.kind = "threaded"
                                         THEN "T252" ELSE "S172"]
    /\ eng_loc' = [eng_loc EXCEPT ![c] = [NoLoc EXCEPT !.request = request]]
    /\ eng_out' = [eng_out EXCEPT ![c] = Idle]
    /\ UNCHANGED <<categories, db_ok, engFrame, tiers>>

\* categorize_threaded_email, lines 252-322: the thread check and, when it
\* passes, the count of the previous category (line 283) and the response
\* (lines 288-295); when it does not pass, the standalone request is built
\* (lines 310-320) and categorize_standalone_email called.  Both the response
\* and the standalone request read request.user_id.
Threaded(c) ==
    LET loc == eng_loc[c]
        r == loc.request
        prev == get_category_by_name(r.previous_category)
        similarity == calculate_similarity(r.text.emb,
                                           categories[prev].embedding)
        standalone == [loc EXCEPT !.inner = TRUE]
        checked == [loc EXCEPT !.category = prev, !.similarity = similarity,
                               !.path = Append(@, "THREAD_CHECK")]
        counted == [checked EXCEPT !.counted = Append(@, prev)]
        to_standalone ==
            /\ IF HasAttr(r, "user_id")
                 THEN Resume(c, "S172", standalone)
                 ELSE Raise(c, loc, FALSE)
            /\ UNCHANGED categories
    IN  /\ eng_pc[c] = "T252"
        /\ IF r.previous_category = None
             THEN to_standalone
           ELSE IF ~db_ok
             THEN /\ Raise(c, loc, TRUE)
                  /\ UNCHANGED categories
           ELSE IF \/ prev = 0
                   \/ categories[prev].embedding = <<>>
                   \/ ~is_thread_continuation(r.subject, r.thread_subject)
                   \/ similarity < thread_consistency_threshold
             THEN to_standalone
             ELSE /\ categories' = update_category_email_count(prev)
                  /\ IF HasAttr(r, "user_id")
                       THEN Respond(c, [counted EXCEPT
                              !.assigned = categories[prev].name,
                              !.confidence = boosted_confidence(similarity),
                              !.is_new = FALSE])
                       ELSE Raise(c, counted, FALSE)
        /\ UNCHANGED <<db_ok, reqs, engFrame>>

\* categorize_standalone_email, lines 172-236: the lookups in the result
\* cache, the embedding, the matcher, the assignment of the match (lines
\* 207-216) and, without a match, the name of the new category and the
\* lookup of _create_new_category_response (lines 358-363), whose result
\* changes nothing.  self._extract_better_category_name (line 227) is not
\* defined: the call raises AttributeError.  The response of a match is
\* built after the count (lines 207-212) and reads request.user_id.
Standalone(c, cached) ==
    LET loc == eng_loc[c]
        r == loc.request
        similar == find_similar_in_memory(r.text.emb, category_match_threshold, 1)
        called == [loc EXCEPT !.matcher_calls = @ + 1]
        best == similar[1].category
        category_name == generate_category_name(r.text)
        canonical_name == LowerName(category_name)
        minting == [called EXCEPT !.path = Append(@, "CREATE_NEW")]
        matched == [called EXCEPT !.category = best,
                                  !.similarity = similar[1].score,
                                  !.path = Append(@, "MATCH"),
                                  !.counted = Append(@, best)]
    IN  /\ eng_pc[c] = "S172"
        /\ IF cached
             THEN /\ Finish(c, [loc EXCEPT !.assigned = "cached",
                                           !.path = Append(@, "CACHED")])
                  /\ UNCHANGED categories
           ELSE IF ~db_ok
             THEN /\ Raise(c, called, TRUE)
                  /\ UNCHANGED categories
           ELSE IF similar # <<>>
             THEN /\ categories' = update_category_email_count(best)
                  /\ IF HasAttr(r, "user_id")
                       THEN Respond(c, [matched EXCEPT
                              !.assigned = categories[best].name,
                              !.confidence = similar[1].score,
                              !.is_new = FALSE])
                       ELSE Raise(c, matched, FALSE)
           ELSE IF category_name = "general"
             THEN /\ Raise(c, minting, FALSE)
                  /\ UNCHANGED categories
             ELSE /\ Resume(c, "N364",
                       [minting EXCEPT
                          !.name = canonical_name,
                          !.existing = get_category_by_name(canonical_name)])
                  /\ UNCHANGED categories
        /\ UNCHANGED <<db_ok, reqs, engFrame>>

\* _create_new_category_response, lines 364-375: create_category, the count
\* of the new category and the response, which reads request.user_id; the
\* insert of a name that exists raises (crud.py lines 26-29: rollback and
\* re-raise)
NewCreate(c) ==
    LET loc == eng_loc[c]
        new_id == Len(categories) + 1
        created == create_category(loc.name, loc.request.text.emb)
        minted == [loc EXCEPT !.category = new_id,
                              !.created = Append(@, loc.name),
                              !.counted = Append(@, new_id)]
    IN  /\ eng_pc[c] = "N364"
        /\ IF ~db_ok
             THEN /\ Raise(c, loc, TRUE)
                  /\ UNCHANGED categories
           ELSE IF NameTaken(loc.name)
             THEN /\ Raise(c, loc, FALSE)
                  /\ UNCHANGED categories
             ELSE /\ categories' =
                        [created EXCEPT ![new_id].email_count = @ + 1]
                  /\ IF HasAttr(loc.request, "user_id")
                       THEN Respond(c, [minted EXCEPT
                              !.assigned = loc.name,
                              !.confidence = 80,
                              !.is_new = TRUE])
                       ELSE Raise(c, minted, FALSE)
        /\ UNCHANGED <<db_ok, reqs, engFrame>>

\* _fallback_response, lines 386-390: the count of the General category and
\* the response, which reads request.user_id
FallbackResponse(c, loc, id) ==
    LET general == [loc EXCEPT !.category = id, !.counted = Append(@, id)]
    IN  IF HasAttr(loc.request, "user_id")
          THEN Finish(c, [general EXCEPT !.assigned = "General",
                                         !.confidence = 50, !.is_new = FALSE])
          ELSE Propagate(c, general, FALSE)

\* _fallback_response, lines 381-390: the lookup of "General" and, when it
\* is there, its count and the response
FallbackLookup(c) ==
    LET loc == eng_loc[c]
        general_category == get_category_by_name("General")
    IN  /\ eng_pc[c] = "F381"
        /\ IF ~db_ok
             THEN /\ Propagate(c, loc, TRUE)
                  /\ UNCHANGED categories
           ELSE IF general_category = 0
             THEN /\ Resume(c, "F383", loc)
                  /\ UNCHANGED categories
             ELSE /\ categories' = update_category_email_count(general_category)
                  /\ FallbackResponse(c, loc, general_category)
        /\ UNCHANGED <<db_ok, reqs, engFrame>>

\* lines 383-390: create_category(db, "General", "General email category"),
\* its count and the response
FallbackCreate(c) ==
    LET loc == eng_loc[c]
        new_id == Len(categories) + 1
        created == create_category("General", <<>>)
    IN  /\ eng_pc[c] = "F383"
        /\ IF ~db_ok
             THEN /\ Propagate(c, loc, TRUE)
                  /\ UNCHANGED categories
           ELSE IF NameTaken("General")
             THEN /\ Propagate(c, loc, FALSE)
                  /\ UNCHANGED categories
             ELSE /\ categories' =
                        [created EXCEPT ![new_id].email_count = @ + 1]
                  /\ FallbackResponse(
                        c, [loc EXCEPT !.created = Append(@, "General")], new_id)
        /\ UNCHANGED <<db_ok, reqs, engFrame>>

EngNext ==
    \/ \E c \in Ctx, request \in Requests : Submit(c, request)
    \/ \E c \in Ctx : Threaded(c)
    \/ \E c \in Ctx, cached \in BOOLEAN : Standalone(c, cached)
    \/ \E c \in Ctx : NewCreate(c)
    \/ \E c \in Ctx : FallbackLookup(c)
    \/ \E c \in Ctx : FallbackCreate(c)
    \/ DbDown
    \/ DbUp

EngSpec == Init /\ [][EngNext]_vars

\* The requests with the result cache as the requests leave it: a lookup
\* answers what the tiers hold for the email id or the content hash.
ReplayNext ==
    \/ \E c \in Ctx, request \in Requests : Submit(c, request)
    \/ \E c \in Ctx : Threaded(c)
    \/ \E c \in Ctx : Standalone(c, Replayed(eng_loc[c].request))
    \/ \E c \in Ctx : NewCreate(c)
    \/ \E c \in Ctx : FallbackLookup(c)
    \/ \E c \in Ctx : FallbackCreate(c)

ReplaySpec == Init /\ [][ReplayNext]_vars

\* The step of context c that leaves statement pc while the database is
\* reachable.
StepFrom(c, pc) == eng_pc[c] = pc /\ eng_pc'[c] # pc /\ db_ok

\* The rows other than row id are what they were, and no row is added.
OnlyCounted(id) ==
    /\ Len(categories') = Len(categories)
    /\ categories'[id] =
          [categories[id] EXCEPT !.email_count = categories[id].email_count + 1]
    /\ \A i \in 1..Len(categories) : i # id => categories'[i] = categories[i]

\* The previous category of the threaded request of context c: the row whose
\* name is previous_category without regard to case, 0 when there is none.
PreviousOf(c) ==
    LET name == eng_loc[c].request.previous_category
        rows == {i \in 1..Len(categories) :
                    LowerName(categories[i].name) = LowerName(name)}
    IN  IF name = None \/ rows = {} THEN 0
        ELSE CHOOSE i \in rows : \A j \in rows : i <= j

\* The thread check of the request of context c passes.
ThreadConsistent(c) ==
    LET r == eng_loc[c].request
        prev == PreviousOf(c)
    IN  /\ r.kind = "threaded"
        /\ prev # 0
        /\ categories[prev].embedding # <<>>
        /\ SameThread(r.subject, r.thread_subject)
        /\ CosineTable[<<r.text.emb, categories[prev].embedding>>]
              >= thread_consistency_threshold

\* C23: a threaded request whose previous category exists with an embedding,
\* whose subject continues the thread and whose similarity to that embedding
\* reaches the thread-consistency threshold is assigned the previous
\* category with confidence min(0.95, similarity + boost) and is_new_category
\* false; the count of that category goes up by exactly 1, the matcher is
\* not called and no category is created.
C23_ThreadCheckEarlyReturn ==
    [][\A c \in Ctx :
         (StepFrom(c, "T252") /\ ThreadConsistent(c)) =>
            LET prev == PreviousOf(c)
                r == eng_loc[c].request
                sim == CosineTable[<<r.text.emb, categories[prev].embedding>>]
                out == eng_out'[c]
            IN  /\ out.done /\ ~out.raised
                /\ out.assigned = categories[prev].name
                /\ out.confidence = (IF sim + 20 < 95 THEN sim + 20 ELSE 95)
                /\ ~out.is_new
                /\ out.matcher_calls = 0
                /\ out.created = <<>>
                /\ OnlyCounted(prev)]_vars

\* The request of context c was not answered from the result cache.
NotCached(c) == eng_pc'[c] = "idle" => "CACHED" \notin SetOf(eng_out'[c].path)

\* What the matcher returns for the request of context c: the categories
\* whose similarity reaches the match threshold, the best first.
MatchOf(c) ==
    find_similar_in_memory(eng_loc[c].request.text.emb, category_match_threshold, 1)

\* C24: when the matcher returns a category for a standalone request, the
\* response assigns that category with the returned score as confidence and
\* is_new_category false, no category is created, and the count of that
\* category is higher by exactly 1 than before.
C24_MatchAssigns ==
    [][\A c \in Ctx :
         (StepFrom(c, "S172") /\ NotCached(c) /\ MatchOf(c) # <<>>) =>
            LET m == MatchOf(c)[1]
                out == eng_out'[c]
            IN  /\ out.done /\ ~out.raised
                /\ out.assigned = categories[m.category].name
                /\ out.confidence = m.score
                /\ ~out.is_new
                /\ out.created = <<>>
                /\ OnlyCounted(m.category)]_vars

\* The step that ends the request of context c.
Ended(c) == eng_out'[c] # eng_out[c] /\ eng_out'[c].done

\* The first entry of the keyword table with a keyword in the text.
KeywordLabel(text) == FirstHit(canonical_categories, 1, LowerWord(text.word))

\* The highest similarity of the text to the embedding of a label.
BestLabelSimilarity(text) ==
    Best(canonical_embeddings, 1, text.emb, [cat |-> "general", sim |-> 0]).sim

\* The rows named name.
RowsNamed(name) == {i \in 1..Len(categories') : categories'[i].name = name}

\* C25: a request without a match whose text has a keyword of the table
\* creates one category named after the first entry with a matching keyword,
\* with the embedding of the email and email count 1, and returns it with
\* confidence 0.8 and is_new_category true.
C25_CreateNewKeywordHit ==
    [][\A c \in Ctx :
         LET out == eng_out'[c]
             label == KeywordLabel(out.request.text)
         IN  (/\ Ended(c)
              /\ "CREATE_NEW" \in SetOf(out.path)
              /\ label # None
              /\ ~out.db_error) =>
                /\ ~out.raised
                /\ out.assigned = LowerName(label)
                /\ out.confidence = 80
                /\ out.is_new
                /\ out.created = <<LowerName(label)>>
                /\ categories'[out.category].name = LowerName(label)
                /\ categories'[out.category].embedding = out.request.text.emb
                /\ categories'[out.category].email_count = 1]_vars

\* C26: a request without a match, without a keyword of the table in its
\* text and without a label whose similarity reaches the embedding threshold
\* gets its category under the name "general" from the CREATE_NEW step, not
\* from the error fallback.
C26_CreateNewDefaultLabel ==
    [][\A c \in Ctx :
         LET out == eng_out'[c]
         IN  (/\ Ended(c)
              /\ "CREATE_NEW" \in SetOf(out.path)
              /\ KeywordLabel(out.request.text) = None
              /\ BestLabelSimilarity(out.request.text) < embedding_threshold
              /\ ~out.db_error) =>
                /\ ~out.raised
                /\ "FALLBACK" \notin SetOf(out.path)
                /\ out.assigned = "general"
                /\ RowsNamed("general") # {}]_vars

\* C27: a request in which a step raised does not end with an exception: it
\* returns "General" with confidence 0.5 and is_new_category false, and the
\* General category exists.
C27_FallbackNeverRaises ==
    [][\A c \in Ctx :
         LET out == eng_out'[c]
         IN  (Ended(c) /\ "FALLBACK" \in SetOf(out.path)) =>
                /\ ~out.raised
                /\ out.assigned = "General"
                /\ out.confidence = 50
                /\ ~out.is_new
                /\ \E i \in 1..Len(categories') :
                      LowerName(categories'[i].name) = "general"]_vars

\* C28: no two rows of table "categories" have names that are equal without
\* regard to case.
C28_NamesUniqueIgnoringCase ==
    \A i, j \in 1..Len(categories) :
        i # j => LowerName(categories[i].name) # LowerName(categories[j].name)

\* C28: a request derived the name "finance" while a finance category that
\* did not match existed; it ended with the General category next to the
\* one finance category.
C28_Witness ==
    \E c \in Ctx :
        /\ eng_out[c].done
        /\ eng_out[c].name = "finance"
        /\ eng_out[c].existing # 0
        /\ eng_out[c].path = <<"CREATE_NEW", "FALLBACK">>
        /\ {categories[i].name : i \in 1..Len(categories)} = {"finance", "General"}
        /\ Len(categories) = 2

\* The request that ended in context c found no category of its name, did
\* not create it, and met no database outage: the other context created the
\* category between its lookup and its insert.
LostTheRace(out) ==
    /\ "CREATE_NEW" \in SetOf(out.path)
    /\ out.name # None
    /\ out.existing = 0
    /\ out.name \notin SetOf(out.created)
    /\ ~out.db_error

\* C29: when both contexts create a category of the same name at the same
\* time, one category of that name exists afterwards and the request that
\* lost is assigned to it, with its count raised, without an error.
C29_LoserJoinsWinner ==
    [][\A c \in Ctx :
         LET out == eng_out'[c]
         IN  (Ended(c) /\ LostTheRace(out)) =>
                /\ Cardinality(RowsNamed(out.name)) = 1
                /\ ~out.raised
                /\ out.assigned = out.name
                /\ SetOf(out.counted) = RowsNamed(out.name)]_vars

(***************************************************************************)
(* Liveness of the worker and of the jobs                                  *)
(***************************************************************************)
\* job id has a terminal status in the job table
Terminal(id) ==
    InTable(id) /\ task_results[id].status \in {COMPLETED, FAILED}

\* the worker thread runs and the broker is reachable
WorkerServes == broker_up /\ is_running /\ w_pc # "dead"

\* C33: with a scheduled worker and a broker that stays reachable, every job
\* that queue_task has put in the job table has a terminal status eventually;
\* no job stays queued or processing forever.
C33_JobsTerminate ==
    \A id \in MsgIds :
        []((InTable(id) /\ []WorkerServes) => <>Terminal(id))

\* C37: once stop_worker has cleared is_running (and nothing sets it again),
\* the worker thread leaves _worker_loop eventually, also when it is blocked
\* in start_consuming with no message arriving and the connection up.
C37_StoppedWorkerExits == []([](~is_running) => <>(w_pc = "dead"))

\* the record of job id is consistent
Consistent(id) ==
    LET t == task_results[id]
    IN  /\ t.completed_at <=> t.status \in {COMPLETED, FAILED}
        /\ t.status = COMPLETED => (t.result # None /\ t.error = None)
        /\ t.status = FAILED => (t.error # None /\ t.result = None)
        /\ t.status \in {QUEUED, PROCESSING} => (t.result = None /\ t.error = None)

\* C38: a job has completed_at set exactly when it is completed or failed; a
\* completed job has a result and no error, a failed job an error and no
\* result, a queued or processing job neither.  Stated of the jobs whose
\* message the worker is not handling at the moment.
C38_RecordConsistent ==
    \A id \in DOMAIN task_results : w_msg.id # id => Consistent(id)

(***************************************************************************)
(* Termination of get_cached_result                                         *)
(***************************************************************************)
\* the thread that called get_cached_result goes on running its loop; the
\* clock, the broker and the other callers are not obliged to do anything
ScanSpec == Init /\ [][CacheNext]_vars /\ WF_vars(ScanStep)

Durable(k, v) ==
    \E i \in DOMAIN result_queue :
        /\ result_queue[i].key = k
        /\ json_loads(result_queue[i].result) = v

\* C35: every key with an unexpired entry in the in-memory tier has an entry
\* with the same value in the durable tier, also when the in-memory entry was
\* promoted from the durable tier by a lookup.
C35_DurableMirrorsMemory ==
    \A k \in DOMAIN result_cache :
        MemoryHit(k, clock) => Durable(k, result_cache[k])

\* this step is a get_cached_result(k) returning a value
LookupReturns(k) ==
    /\ GetCachedResult(k) \/ (ScanStep /\ scan_key = k)
    /\ fg_pc' = "idle"
    /\ calls'[Len(calls')].val # None

\* C36: a get_cached_result(k) returns a value only before the time
\* t + result_cache_ttl, where t is the time of the last cache_result of k:
\* a promotion from the durable tier does not let an entry live longer.
C36_TtlBound ==
    [][\A k \in Keys :
          LookupReturns(k) =>
              /\ k \in DOMAIN written
              /\ clock < written[k] + result_cache_ttl]_vars

ServedFromCache(out) == \E i \in 1..Len(out.path) : out.path[i] = "CACHED"

\* C40: a request that is not answered from the result cache ends with a
\* response, and has raised the email count of one category by one: the
\* category its response names.
C40_OneEmailOneCount ==
    [][\A c \in Ctx :
          (Ended(c) /\ ~ServedFromCache(eng_out'[c])) =>
              LET out == eng_out'[c]
              IN  /\ ~out.raised
                  /\ Len(out.counted) = 1
                  /\ categories'[out.counted[1]].name = out.assigned]_vars

\* C31: two emails with equal subject and equal body have the same content
\* hash, and two emails with the same non-empty subject and different bodies
\* have different content hashes.
C31_HashOfSubjectAndBody ==
    fp_op.called =>
        /\ (fp_op.first = fp_op.second) => fp_op.first_hash = fp_op.second_hash
        /\ (/\ fp_op.first.subject = fp_op.second.subject
            /\ fp_op.first.subject # <<>>
            /\ fp_op.first.body # fp_op.second.body) =>
                fp_op.first_hash # fp_op.second_hash

(***************************************************************************)
(* Replay of cached results                                                 *)
(***************************************************************************)
\* A standalone request for the email of the request of context c has ended
\* in the other context after MATCH counted the matched category or
\* CREATE_NEW created the category of its name.
CategorizedBefore(c) ==
    \E d \in Ctx \ {c} :
        /\ eng_out[d].done
        /\ eng_out[d].request = eng_loc[c].request
        /\ eng_out[d].request.kind = "standalone"
        /\ \/ "MATCH" \in SetOf(eng_out[d].path)
           \/ eng_out[d].name \in SetOf(eng_out[d].created)

\* C32: once a standalone request has been categorized through MATCH or
\* CREATE_NEW, a later standalone request for the same email id is answered
\* from the result cache: the matcher is not called, no category is created
\* and no email count changes.
C32_ReplayFromCache ==
    [][\A c \in Ctx :
          (/\ eng_pc[c] = "S172"
           /\ eng_pc'[c] # "S172"
           /\ eng_loc[c].request.kind = "standalone"
           /\ CategorizedBefore(c)) =>
              /\ eng_pc'[c] = "idle"
              /\ eng_out'[c].path = <<"CACHED">>
              /\ eng_out'[c].matcher_calls = 0
              /\ categories' = categories]_vars

====
